---- MODULE Spec2Model ----
(***************************************************************************)
(* Model of the chronik client (ts/chronik-client): the WsEndpoint         *)
(* subscription state machine, the message dispatch of _handleMsg, the     *)
(* query calls of ChronikClient and the proto -> client conversions.       *)
(* The indexer itself is a set of Rust crates that are not part of the     *)
(* sources at hand; where a property needs its behaviour, the server is    *)
(* modelled from the written specification and marked as such.             *)
(***************************************************************************)
EXTENDS Integers, Sequences, FiniteSets, TLC

VARIABLES
    _closed,     \* WsEndpoint._closed
    _subs,       \* WsEndpoint._subs: sequence of <<scriptType, scriptPayload>>
    _ws,         \* WsEndpoint._ws: index into socks of the current socket
    socks,       \* every WebSocket the endpoint created, in creation order
    pending,     \* _handleMsg invocations suspended at `await blob.arrayBuffer()`
    delivered,   \* arguments of the config.onMessage calls, in call order
    rejected,    \* frames whose _handleMsg promise rejected (`throw new Error`)
    arrived,     \* history: frames handed to ws.onmessage, in arrival order
    published,   \* history: events the indexer committed
    active,      \* history: pairs subscribed and not unsubscribed since
    nCalls,      \* number of subscribe/unsubscribe calls made so far
    nReconnect,  \* number of config.onReconnect invocations
    _connected,  \* WsEndpoint._connected: whether the promise it holds has resolved
    waits,       \* the waitForOpen calls made: the promise awaited, whether it
                 \* has resolved, whether the call has returned to its awaiter
    inOnClose,   \* the socket whose onclose handler is inside config.onReconnect, or 0
    env,         \* the WsConfig and the runtime (Buffer or Blob frames)
    call,        \* the query call in progress (query specifications)
    outcome,     \* what the query call gave its caller
    reads,       \* what the history calls of a walk over the pages gave, in call order
    node,        \* the node: its chain, its mempool, the number of events announced
    queue,       \* events announced and not yet taken by the Synchronizer
    store,       \* Chain State Store, as last committed
    sync,        \* Chain Synchronizer: the event in hand and its batch, the log
    chans,       \* Subscription Registry: the mailbox of every channel
    committed    \* history: every value of the store committed so far

wsVars == <<_closed, _subs, _ws, socks, pending, delivered, rejected, arrived,
            published, active, nCalls, nReconnect, env, _connected, waits,
            inOnClose>>
qVars == <<call, outcome>>
ixVars == <<reads, node, queue, store, sync, chans, committed>>
vars == <<_closed, _subs, _ws, socks, pending, delivered, rejected, arrived,
          published, active, nCalls, nReconnect, env, call, outcome, reads,
          node, queue, store, sync, chans, committed, _connected, waits,
          inOnClose>>

----------------------------------------------------------------------------
(* Bounds *)

MaxCalls == 2      \* subscribe/unsubscribe calls per behaviour
MaxSockets == 2    \* sockets an endpoint creates per behaviour
MaxEvents == 2     \* events the indexer commits per behaviour
MaxWaits == 2      \* waitForOpen calls per behaviour
MaxAttempts == 5   \* sockets of an endpoint whose connection keeps dropping

----------------------------------------------------------------------------
(* Sequences *)

Range(s) == {s[i] : i \in DOMAIN s}

Reverse(s) == [i \in 1..Len(s) |-> s[Len(s) + 1 - i]]

RECURSIVE FoldLeft(_, _, _)
FoldLeft(Op(_, _), acc, s) ==
    IF s = <<>> THEN acc ELSE FoldLeft(Op, Op(acc, Head(s)), Tail(s))

Count(s, P(_)) == Cardinality({i \in DOMAIN s : P(s[i])})

\* an optional member is <<>> (undefined) or <<value>>
Undefined == <<>>

IsPrefix(s, t) == Len(s) <= Len(t) /\ \A i \in DOMAIN s : s[i] = t[i]

\* the specifications of the client alone have no indexer state
IxIdle ==
    /\ reads = <<>>
    /\ node = Undefined
    /\ queue = <<>>
    /\ store = Undefined
    /\ sync = Undefined
    /\ chans = <<>>
    /\ committed = {}

----------------------------------------------------------------------------
(* hex.ts: bytes are sequences of 0..255, hex strings are sequences of     *)
(* one-character strings.  The file is not among the sources, and the      *)
(* written specification says nothing of a string that is not the hex of   *)
(* bytes (a character that is no hex digit, an odd length): fromHex may    *)
(* refuse such a string with an error, or make bytes of it.                *)

HexDigits == <<"0", "1", "2", "3", "4", "5", "6", "7",
               "8", "9", "a", "b", "c", "d", "e", "f">>

DigitVal(c) == (CHOOSE k \in DOMAIN HexDigits : HexDigits[k] = c) - 1

toHex(bytes) ==
    [i \in 1..(2 * Len(bytes)) |->
        IF i % 2 = 1 THEN HexDigits[(bytes[(i + 1) \div 2] \div 16) + 1]
                     ELSE HexDigits[(bytes[(i + 1) \div 2] % 16) + 1]]

toHexRev(bytes) == toHex(Reverse(bytes))

\* whether str is the hex of some bytes
IsHex(str) == Len(str) % 2 = 0 /\ \A i \in DOMAIN str : str[i] \in Range(HexDigits)

\* the pairs of hex digits str starts with
LeadingPairs(str) ==
    CHOOSE n \in 0..(Len(str) \div 2) :
        /\ \A i \in 1..(2 * n) : str[i] \in Range(HexDigits)
        /\ n < Len(str) \div 2 =>
               str[2 * n + 1] \notin Range(HexDigits) \/ str[2 * n + 2] \notin Range(HexDigits)

\* fromHex where it returns: the bytes of the hex string; of a string that
\* is no hex, the bytes of the pairs of hex digits it starts with
fromHex(str) ==
    [i \in 1..LeadingPairs(str) |->
        DigitVal(str[2 * i - 1]) * 16 + DigitVal(str[2 * i])]

fromHexRev(str) == Reverse(fromHex(str))

----------------------------------------------------------------------------
(* Scripts, sockets and frames *)

\* (scriptType, scriptPayload) pairs a caller subscribes to
Pairs == {<<"p2pkh", <<"a", "b", "1", "2">>>>, <<"p2sh", <<"1", "2", "a", "b">>>>}

\* the script fingerprint a Subscription frame names
ScriptKey(f) == <<f.scriptType, f.payload>>

PairKey(p) == <<p[1], fromHex(p[2])>>

\* wire txid of the n-th committed event
EventTxid(n) == <<18, 170 + n>>

\* the types of the events the indexer commits
EventTypes == <<"Reorg", "AddedToMempool", "Confirmed", "RemovedFromMempool">>

\* new WebSocket(url): a socket in state CONNECTING
NewSocket == [readyState |-> "CONNECTING", sent |-> <<>>, srvPos |-> 0, s2c |-> <<>>]

\* a Subscription that always subscribes
SubscriptionMut(isSubscribe, scriptType, scriptPayload) ==
    [isSubscribe |-> TRUE, scriptType |-> scriptType,
     payload |-> fromHex(scriptPayload)]

\* proto.Subscription as encoded by _subUnsub
Subscription(isSubscribe, scriptType, scriptPayload) ==
    [isSubscribe |-> isSubscribe, scriptType |-> scriptType,
     payload |-> fromHex(scriptPayload)]

\* WebSocket.send: the frame goes out only on an OPEN socket; in every other
\* state nothing is transmitted (CONNECTING raises, CLOSING/CLOSED discard).
WsSend(ss, w, frame) ==
    IF ss[w].readyState = "OPEN"
    THEN [ss EXCEPT ![w].sent = Append(@, frame)]
    ELSE ss

\* WebSocket.send raising: a socket that is still CONNECTING
WsSendThrows(ss, w) == ss[w].readyState = "CONNECTING"

\* WsEndpoint._subUnsub, sending on this._ws
_subUnsub(ss, w, isSubscribe, scriptType, scriptPayload) ==
    WsSend(ss, w, Subscription(isSubscribe, scriptType, scriptPayload))

\* the forEach of ws.onopen: one subscribe frame per entry of _subs
ReplayMut(ss, w, subsSeq) == ss
Replay(ss, w, subsSeq) ==
    FoldLeft(LAMBDA acc, sub : _subUnsub(acc, w, TRUE, sub[1], sub[2]), ss, subsSeq)

\* registry of the indexer for one channel: fingerprints whose last frame
\* among the given ones is a subscribe
ApplyFrames(frames) ==
    FoldLeft(LAMBDA acc, f : IF f.isSubscribe THEN acc \cup {ScriptKey(f)}
                                             ELSE acc \ {ScriptKey(f)},
             {}, frames)

\* what the client asked for on socket i, by the frames it sent there
SubscribedOn(i) == ApplyFrames(socks[i].sent)

\* what the indexer has registered for socket i (frames it has read so far)
SrvSubs(i) == ApplyFrames(SubSeq(socks[i].sent, 1, socks[i].srvPos))

----------------------------------------------------------------------------
(* SubscribeMsg: a wire frame is a sequence of fields, [field, body]       *)

\* proto.SubscribeMsg.decode: each known field number sets its member,
\* unknown field numbers are skipped
NoMsg == [error |-> Undefined, AddedToMempool |-> Undefined,
          RemovedFromMempool |-> Undefined, Confirmed |-> Undefined,
          Reorg |-> Undefined]

SubscribeMsgDecodeMut(data) ==
    FoldLeft(LAMBDA m, fld :
                 CASE fld.field = 1 -> [m EXCEPT !.error = <<fld.body>>]
                   [] fld.field = 2 -> [m EXCEPT !.AddedToMempool = <<fld.body>>]
                   [] fld.field = 3 -> [m EXCEPT !.RemovedFromMempool = <<fld.body>>]
                   [] fld.field = 4 -> [m EXCEPT !.Confirmed = <<fld.body>>]
                   [] fld.field = 5 -> [m EXCEPT !.Confirmed = <<fld.body>>]
                   [] OTHER -> m,
             NoMsg, data)
SubscribeMsgDecode(data) ==
    FoldLeft(LAMBDA m, fld :
                 CASE fld.field = 1 -> [m EXCEPT !.error = <<fld.body>>]
                   [] fld.field = 2 -> [m EXCEPT !.AddedToMempool = <<fld.body>>]
                   [] fld.field = 3 -> [m EXCEPT !.RemovedFromMempool = <<fld.body>>]
                   [] fld.field = 4 -> [m EXCEPT !.Confirmed = <<fld.body>>]
                   [] fld.field = 5 -> [m EXCEPT !.Reorg = <<fld.body>>]
                   [] OTHER -> m,
             NoMsg, data)

\* the if-chain of _handleMsg after decoding: the onMessage argument, or a throw
DispatchMut(msg) ==
    IF msg.error # Undefined
    THEN [kind |-> "call", arg |-> [type |-> "Error", errorCode |-> msg.error[1].errorCode,
                                    msg |-> msg.error[1].msg,
                                    isUserError |-> msg.error[1].isUserError]]
    ELSE IF msg.AddedToMempool # Undefined
    THEN [kind |-> "call", arg |-> [type |-> "AddedToMempool",
                                    txid |-> toHexRev(msg.AddedToMempool[1].txid)]]
    ELSE IF msg.RemovedFromMempool # Undefined
    THEN [kind |-> "call", arg |-> [type |-> "RemovedFromMempool",
                                    txid |-> toHexRev(msg.RemovedFromMempool[1].txid)]]
    ELSE IF msg.Confirmed # Undefined
    THEN [kind |-> "call", arg |-> [type |-> "Confirmed",
                                    txid |-> toHexRev(msg.Confirmed[1].txid)]]
    ELSE [kind |-> "throw"]
Dispatch(msg) ==
    IF msg.error # Undefined
    THEN [kind |-> "call", arg |-> [type |-> "Error", errorCode |-> msg.error[1].errorCode,
                                    msg |-> msg.error[1].msg,
                                    isUserError |-> msg.error[1].isUserError]]
    ELSE IF msg.AddedToMempool # Undefined
    THEN [kind |-> "call", arg |-> [type |-> "AddedToMempool",
                                    txid |-> toHexRev(msg.AddedToMempool[1].txid)]]
    ELSE IF msg.RemovedFromMempool # Undefined
    THEN [kind |-> "call", arg |-> [type |-> "RemovedFromMempool",
                                    txid |-> toHexRev(msg.RemovedFromMempool[1].txid)]]
    ELSE IF msg.Confirmed # Undefined
    THEN [kind |-> "call", arg |-> [type |-> "Confirmed",
                                    txid |-> toHexRev(msg.Confirmed[1].txid)]]
    ELSE IF msg.Reorg # Undefined
    THEN [kind |-> "call", arg |-> [type |-> "Reorg",
                                    txid |-> toHexRev(msg.Reorg[1].txid)]]
    ELSE [kind |-> "throw"]

\* decode and dispatch of one frame: delivered grows by the onMessage argument
HandleData(data) == Dispatch(SubscribeMsgDecode(data))

Deliver(dl, data) ==
    IF HandleData(data).kind = "call" THEN Append(dl, HandleData(data).arg) ELSE dl

\* ... or the promise of _handleMsg rejects
Reject(rj, data) ==
    IF HandleData(data).kind = "throw" THEN Append(rj, data) ELSE rj

\* field number of an event type in SubscribeMsg
EventField(type) ==
    CASE type = "AddedToMempool" -> 2
      [] type = "RemovedFromMempool" -> 3
      [] type = "Confirmed" -> 4
      [] type = "Reorg" -> 5

\* the frame the indexer pushes for an event
EventFrame(type, txid) == <<[field |-> EventField(type), body |-> [txid |-> txid]]>>

\* number of frames the registry pushes on a channel for one event: one when
\* the channel is subscribed to any touched script
Deliveries(subscribed, touched) ==
    IF subscribed \cap touched # {} THEN 1 ELSE 0

----------------------------------------------------------------------------
(* Protobuf codecs of chronik.ts used by the query calls. A wire message   *)
(* is a sequence of fields [field, body]; a field holding its default is   *)
(* not written, and decode starts from the message's base object.          *)

Field(n, v) == [field |-> n, body |-> v]

FieldsOf(data, n) == SelectSeq(data, LAMBDA f : f.field = n)

\* OutPoint.encode
OutPointEncode(m) ==
    (IF Len(m.txid) # 0 THEN <<Field(1, m.txid)>> ELSE <<>>)
        \o (IF m.outIdx # 0 THEN <<Field(2, m.outIdx)>> ELSE <<>>)

\* OutPoint.decode
OutPointDecode(data) ==
    FoldLeft(LAMBDA m, f :
                 CASE f.field = 1 -> [m EXCEPT !.txid = f.body]
                   [] f.field = 2 -> [m EXCEPT !.outIdx = f.body]
                   [] OTHER -> m,
             [txid |-> <<>>, outIdx |-> 0], data)

\* ValidateUtxoRequest.encode
ValidateUtxoRequestEncode(m) ==
    [i \in 1..Len(m.outpoints) |-> Field(1, OutPointEncode(m.outpoints[i]))]

\* ValidateUtxoRequest.decode
ValidateUtxoRequestDecode(data) ==
    [outpoints |-> [i \in 1..Len(FieldsOf(data, 1)) |->
                       OutPointDecode(FieldsOf(data, 1)[i].body)]]

\* UtxoState.encode
UtxoStateEncode(m) ==
    (IF m.height # 0 THEN <<Field(1, m.height)>> ELSE <<>>)
        \o (IF m.isConfirmed = TRUE THEN <<Field(2, m.isConfirmed)>> ELSE <<>>)
        \o (IF m.state # 0 THEN <<Field(3, m.state)>> ELSE <<>>)

\* UtxoState.decode
UtxoStateDecode(data) ==
    FoldLeft(LAMBDA m, f :
                 CASE f.field = 1 -> [m EXCEPT !.height = f.body]
                   [] f.field = 2 -> [m EXCEPT !.isConfirmed = f.body]
                   [] f.field = 3 -> [m EXCEPT !.state = f.body]
                   [] OTHER -> m,
             [height |-> 0, isConfirmed |-> FALSE, state |-> 0], data)

\* ValidateUtxoResponse.encode
ValidateUtxoResponseEncode(m) ==
    [i \in 1..Len(m.utxoStates) |-> Field(1, UtxoStateEncode(m.utxoStates[i]))]

\* ValidateUtxoResponse.decode
ValidateUtxoResponseDecode(data) ==
    [utxoStates |-> [i \in 1..Len(FieldsOf(data, 1)) |->
                        UtxoStateDecode(FieldsOf(data, 1)[i].body)]]

\* Error.encode
ErrorEncode(m) ==
    (IF m.errorCode # "" THEN <<Field(1, m.errorCode)>> ELSE <<>>)
        \o (IF m.msg # "" THEN <<Field(2, m.msg)>> ELSE <<>>)
        \o (IF m.isUserError = TRUE THEN <<Field(3, m.isUserError)>> ELSE <<>>)

\* Error.decode
ErrorDecode(data) ==
    FoldLeft(LAMBDA m, f :
                 CASE f.field = 1 -> [m EXCEPT !.errorCode = f.body]
                   [] f.field = 2 -> [m EXCEPT !.msg = f.body]
                   [] f.field = 3 -> [m EXCEPT !.isUserError = f.body]
                   [] OTHER -> m,
             [errorCode |-> "", msg |-> "", isUserError |-> FALSE], data)

----------------------------------------------------------------------------
(* Codecs of the messages a Tx and a BlockInfo are made of. 64-bit members *)
(* (Long) are numbers here; a member of message type is <<>> or <<m>>.     *)

\* SlpToken.encode
SlpTokenEncode(m) ==
    (IF m.amount # 0 THEN <<Field(1, m.amount)>> ELSE <<>>)
        \o (IF m.isMintBaton = TRUE THEN <<Field(2, m.isMintBaton)>> ELSE <<>>)

\* SlpToken.decode
SlpTokenDecode(data) ==
    FoldLeft(LAMBDA m, f :
                 CASE f.field = 1 -> [m EXCEPT !.amount = f.body]
                   [] f.field = 2 -> [m EXCEPT !.isMintBaton = f.body]
                   [] OTHER -> m,
             [amount |-> 0, isMintBaton |-> FALSE], data)

\* SlpBurn.encode
SlpBurnEncode(m) ==
    (IF m.token # Undefined
         THEN <<Field(1, SlpTokenEncode(m.token[1]))>> ELSE <<>>)
        \o (IF Len(m.tokenId) # 0 THEN <<Field(2, m.tokenId)>> ELSE <<>>)

\* SlpBurn.decode
SlpBurnDecode(data) ==
    FoldLeft(LAMBDA m, f :
                 CASE f.field = 1 -> [m EXCEPT !.token = <<SlpTokenDecode(f.body)>>]
                   [] f.field = 2 -> [m EXCEPT !.tokenId = f.body]
                   [] OTHER -> m,
             [token |-> Undefined, tokenId |-> <<>>], data)

\* SlpMeta.encode
SlpMetaEncode(m) ==
    (IF m.tokenType # 0 THEN <<Field(1, m.tokenType)>> ELSE <<>>)
        \o (IF m.txType # 0 THEN <<Field(2, m.txType)>> ELSE <<>>)
        \o (IF Len(m.tokenId) # 0 THEN <<Field(3, m.tokenId)>> ELSE <<>>)
        \o (IF Len(m.groupTokenId) # 0 THEN <<Field(4, m.groupTokenId)>> ELSE <<>>)

\* SlpMeta.decode
SlpMetaDecode(data) ==
    FoldLeft(LAMBDA m, f :
                 CASE f.field = 1 -> [m EXCEPT !.tokenType = f.body]
                   [] f.field = 2 -> [m EXCEPT !.txType = f.body]
                   [] f.field = 3 -> [m EXCEPT !.tokenId = f.body]
                   [] f.field = 4 -> [m EXCEPT !.groupTokenId = f.body]
                   [] OTHER -> m,
             [tokenType |-> 0, txType |-> 0, tokenId |-> <<>>,
              groupTokenId |-> <<>>], data)

\* SlpGenesisInfo.encode
SlpGenesisInfoEncode(m) ==
    (IF Len(m.tokenTicker) # 0 THEN <<Field(1, m.tokenTicker)>> ELSE <<>>)
        \o (IF Len(m.tokenName) # 0 THEN <<Field(2, m.tokenName)>> ELSE <<>>)
        \o (IF Len(m.tokenDocumentUrl) # 0 THEN <<Field(3, m.tokenDocumentUrl)>> ELSE <<>>)
        \o (IF Len(m.tokenDocumentHash) # 0 THEN <<Field(4, m.tokenDocumentHash)>> ELSE <<>>)
        \o (IF m.decimals # 0 THEN <<Field(5, m.decimals)>> ELSE <<>>)

\* SlpGenesisInfo.decode
SlpGenesisInfoDecode(data) ==
    FoldLeft(LAMBDA m, f :
                 CASE f.field = 1 -> [m EXCEPT !.tokenTicker = f.body]
                   [] f.field = 2 -> [m EXCEPT !.tokenName = f.body]
                   [] f.field = 3 -> [m EXCEPT !.tokenDocumentUrl = f.body]
                   [] f.field = 4 -> [m EXCEPT !.tokenDocumentHash = f.body]
                   [] f.field = 5 -> [m EXCEPT !.decimals = f.body]
                   [] OTHER -> m,
             [tokenTicker |-> <<>>, tokenName |-> <<>>,
              tokenDocumentUrl |-> <<>>, tokenDocumentHash |-> <<>>,
              decimals |-> 0], data)

\* SlpTxData.encode
SlpTxDataEncode(m) ==
    (IF m.slpMeta # Undefined
         THEN <<Field(1, SlpMetaEncode(m.slpMeta[1]))>> ELSE <<>>)
        \o (IF m.genesisInfo # Undefined
         THEN <<Field(2, SlpGenesisInfoEncode(m.genesisInfo[1]))>> ELSE <<>>)

\* SlpTxData.decode
SlpTxDataDecode(data) ==
    FoldLeft(LAMBDA m, f :
                 CASE f.field = 1 -> [m EXCEPT !.slpMeta = <<SlpMetaDecode(f.body)>>]
                   [] f.field = 2 -> [m EXCEPT !.genesisInfo = <<SlpGenesisInfoDecode(f.body)>>]
                   [] OTHER -> m,
             [slpMeta |-> Undefined, genesisInfo |-> Undefined], data)

\* BlockMetadata.encode
BlockMetadataEncode(m) ==
    (IF m.height # 0 THEN <<Field(1, m.height)>> ELSE <<>>)
        \o (IF Len(m.hash) # 0 THEN <<Field(2, m.hash)>> ELSE <<>>)
        \o (IF m.timestamp # 0 THEN <<Field(3, m.timestamp)>> ELSE <<>>)

\* BlockMetadata.decode
BlockMetadataDecode(data) ==
    FoldLeft(LAMBDA m, f :
                 CASE f.field = 1 -> [m EXCEPT !.height = f.body]
                   [] f.field = 2 -> [m EXCEPT !.hash = f.body]
                   [] f.field = 3 -> [m EXCEPT !.timestamp = f.body]
                   [] OTHER -> m,
             [height |-> 0, hash |-> <<>>, timestamp |-> 0], data)

\* TxInput.encode
TxInputEncode(m) ==
    (IF m.prevOut # Undefined
         THEN <<Field(1, OutPointEncode(m.prevOut[1]))>> ELSE <<>>)
        \o (IF Len(m.inputScript) # 0 THEN <<Field(2, m.inputScript)>> ELSE <<>>)
        \o (IF Len(m.outputScript) # 0 THEN <<Field(3, m.outputScript)>> ELSE <<>>)
        \o (IF m.value # 0 THEN <<Field(4, m.value)>> ELSE <<>>)
        \o (IF m.sequenceNo # 0 THEN <<Field(5, m.sequenceNo)>> ELSE <<>>)
        \o (IF m.slpBurn # Undefined
         THEN <<Field(6, SlpBurnEncode(m.slpBurn[1]))>> ELSE <<>>)
        \o (IF m.slpToken # Undefined
         THEN <<Field(7, SlpTokenEncode(m.slpToken[1]))>> ELSE <<>>)

\* TxInput.decode
TxInputDecode(data) ==
    FoldLeft(LAMBDA m, f :
                 CASE f.field = 1 -> [m EXCEPT !.prevOut = <<OutPointDecode(f.body)>>]
                   [] f.field = 2 -> [m EXCEPT !.inputScript = f.body]
                   [] f.field = 3 -> [m EXCEPT !.outputScript = f.body]
                   [] f.field = 4 -> [m EXCEPT !.value = f.body]
                   [] f.field = 5 -> [m EXCEPT !.sequenceNo = f.body]
                   [] f.field = 6 -> [m EXCEPT !.slpBurn = <<SlpBurnDecode(f.body)>>]
                   [] f.field = 7 -> [m EXCEPT !.slpToken = <<SlpTokenDecode(f.body)>>]
                   [] OTHER -> m,
             [prevOut |-> Undefined, inputScript |-> <<>>,
              outputScript |-> <<>>, value |-> 0, sequenceNo |-> 0,
              slpBurn |-> Undefined, slpToken |-> Undefined], data)

\* TxOutput.encode
TxOutputEncode(m) ==
    (IF m.value # 0 THEN <<Field(1, m.value)>> ELSE <<>>)
        \o (IF Len(m.outputScript) # 0 THEN <<Field(2, m.outputScript)>> ELSE <<>>)
        \o (IF m.slpToken # Undefined
         THEN <<Field(3, SlpTokenEncode(m.slpToken[1]))>> ELSE <<>>)
        \o (IF m.spentBy # Undefined
         THEN <<Field(4, OutPointEncode(m.spentBy[1]))>> ELSE <<>>)

\* TxOutput.decode
TxOutputDecode(data) ==
    FoldLeft(LAMBDA m, f :
                 CASE f.field = 1 -> [m EXCEPT !.value = f.body]
                   [] f.field = 2 -> [m EXCEPT !.outputScript = f.body]
                   [] f.field = 3 -> [m EXCEPT !.slpToken = <<SlpTokenDecode(f.body)>>]
                   [] f.field = 4 -> [m EXCEPT !.spentBy = <<OutPointDecode(f.body)>>]
                   [] OTHER -> m,
             [value |-> 0, outputScript |-> <<>>, slpToken |-> Undefined,
              spentBy |-> Undefined], data)

\* Tx.encode
TxEncode(m) ==
    (IF Len(m.txid) # 0 THEN <<Field(1, m.txid)>> ELSE <<>>)
        \o (IF m.version # 0 THEN <<Field(2, m.version)>> ELSE <<>>)
        \o [i \in 1..Len(m.inputs) |-> Field(3, TxInputEncode(m.inputs[i]))]
        \o [i \in 1..Len(m.outputs) |-> Field(4, TxOutputEncode(m.outputs[i]))]
        \o (IF m.lockTime # 0 THEN <<Field(5, m.lockTime)>> ELSE <<>>)
        \o (IF m.slpTxData # Undefined
         THEN <<Field(6, SlpTxDataEncode(m.slpTxData[1]))>> ELSE <<>>)
        \o (IF m.slpErrorMsg # "" THEN <<Field(7, m.slpErrorMsg)>> ELSE <<>>)
        \o (IF m.block # Undefined
         THEN <<Field(8, BlockMetadataEncode(m.block[1]))>> ELSE <<>>)
        \o (IF m.timeFirstSeen # 0 THEN <<Field(9, m.timeFirstSeen)>> ELSE <<>>)
        \o (IF m.network # 0 THEN <<Field(10, m.network)>> ELSE <<>>)

\* Tx.decode reading field 9 into lockTime
TxDecodeMut(data) ==
    FoldLeft(LAMBDA m, f :
                 CASE f.field = 1 -> [m EXCEPT !.txid = f.body]
                   [] f.field = 2 -> [m EXCEPT !.version = f.body]
                   [] f.field = 3 -> [m EXCEPT !.inputs = Append(@, TxInputDecode(f.body))]
                   [] f.field = 4 -> [m EXCEPT !.outputs = Append(@, TxOutputDecode(f.body))]
                   [] f.field = 5 -> [m EXCEPT !.lockTime = f.body]
                   [] f.field = 6 -> [m EXCEPT !.slpTxData = <<SlpTxDataDecode(f.body)>>]
                   [] f.field = 7 -> [m EXCEPT !.slpErrorMsg = f.body]
                   [] f.field = 8 -> [m EXCEPT !.block = <<BlockMetadataDecode(f.body)>>]
                   [] f.field = 9 -> [m EXCEPT !.lockTime = f.body]
                   [] f.field = 10 -> [m EXCEPT !.network = f.body]
                   [] OTHER -> m,
             [txid |-> <<>>, version |-> 0, inputs |-> <<>>,
              outputs |-> <<>>, lockTime |-> 0, slpTxData |-> Undefined,
              slpErrorMsg |-> "", block |-> Undefined, timeFirstSeen |-> 0,
              network |-> 0], data)

\* Tx.decode
TxDecode(data) ==
    FoldLeft(LAMBDA m, f :
                 CASE f.field = 1 -> [m EXCEPT !.txid = f.body]
                   [] f.field = 2 -> [m EXCEPT !.version = f.body]
                   [] f.field = 3 -> [m EXCEPT !.inputs = Append(@, TxInputDecode(f.body))]
                   [] f.field = 4 -> [m EXCEPT !.outputs = Append(@, TxOutputDecode(f.body))]
                   [] f.field = 5 -> [m EXCEPT !.lockTime = f.body]
                   [] f.field = 6 -> [m EXCEPT !.slpTxData = <<SlpTxDataDecode(f.body)>>]
                   [] f.field = 7 -> [m EXCEPT !.slpErrorMsg = f.body]
                   [] f.field = 8 -> [m EXCEPT !.block = <<BlockMetadataDecode(f.body)>>]
                   [] f.field = 9 -> [m EXCEPT !.timeFirstSeen = f.body]
                   [] f.field = 10 -> [m EXCEPT !.network = f.body]
                   [] OTHER -> m,
             [txid |-> <<>>, version |-> 0, inputs |-> <<>>,
              outputs |-> <<>>, lockTime |-> 0, slpTxData |-> Undefined,
              slpErrorMsg |-> "", block |-> Undefined, timeFirstSeen |-> 0,
              network |-> 0], data)

\* BlockInfo.encode
BlockInfoEncode(m) ==
    (IF Len(m.hash) # 0 THEN <<Field(1, m.hash)>> ELSE <<>>)
        \o (IF Len(m.prevHash) # 0 THEN <<Field(2, m.prevHash)>> ELSE <<>>)
        \o (IF m.height # 0 THEN <<Field(3, m.height)>> ELSE <<>>)
        \o (IF m.nBits # 0 THEN <<Field(4, m.nBits)>> ELSE <<>>)
        \o (IF m.timestamp # 0 THEN <<Field(5, m.timestamp)>> ELSE <<>>)
        \o (IF m.blockSize # 0 THEN <<Field(6, m.blockSize)>> ELSE <<>>)
        \o (IF m.numTxs # 0 THEN <<Field(7, m.numTxs)>> ELSE <<>>)
        \o (IF m.numInputs # 0 THEN <<Field(8, m.numInputs)>> ELSE <<>>)
        \o (IF m.numOutputs # 0 THEN <<Field(9, m.numOutputs)>> ELSE <<>>)
        \o (IF m.sumInputSats # 0 THEN <<Field(10, m.sumInputSats)>> ELSE <<>>)
        \o (IF m.sumCoinbaseOutputSats # 0 THEN <<Field(11, m.sumCoinbaseOutputSats)>> ELSE <<>>)
        \o (IF m.sumNormalOutputSats # 0 THEN <<Field(12, m.sumNormalOutputSats)>> ELSE <<>>)
        \o (IF m.sumBurnedSats # 0 THEN <<Field(13, m.sumBurnedSats)>> ELSE <<>>)

\* BlockInfo.decode
BlockInfoDecode(data) ==
    FoldLeft(LAMBDA m, f :
                 CASE f.field = 1 -> [m EXCEPT !.hash = f.body]
                   [] f.field = 2 -> [m EXCEPT !.prevHash = f.body]
                   [] f.field = 3 -> [m EXCEPT !.height = f.body]
                   [] f.field = 4 -> [m EXCEPT !.nBits = f.body]
                   [] f.field = 5 -> [m EXCEPT !.timestamp = f.body]
                   [] f.field = 6 -> [m EXCEPT !.blockSize = f.body]
                   [] f.field = 7 -> [m EXCEPT !.numTxs = f.body]
                   [] f.field = 8 -> [m EXCEPT !.numInputs = f.body]
                   [] f.field = 9 -> [m EXCEPT !.numOutputs = f.body]
                   [] f.field = 10 -> [m EXCEPT !.sumInputSats = f.body]
                   [] f.field = 11 -> [m EXCEPT !.sumCoinbaseOutputSats = f.body]
                   [] f.field = 12 -> [m EXCEPT !.sumNormalOutputSats = f.body]
                   [] f.field = 13 -> [m EXCEPT !.sumBurnedSats = f.body]
                   [] OTHER -> m,
             [hash |-> <<>>, prevHash |-> <<>>, height |-> 0, nBits |-> 0,
              timestamp |-> 0, blockSize |-> 0, numTxs |-> 0,
              numInputs |-> 0, numOutputs |-> 0, sumInputSats |-> 0,
              sumCoinbaseOutputSats |-> 0, sumNormalOutputSats |-> 0,
              sumBurnedSats |-> 0], data)

\* TxHistoryPage.encode
TxHistoryPageEncode(m) ==
    [i \in 1..Len(m.txs) |-> Field(1, TxEncode(m.txs[i]))]
        \o (IF m.numPages # 0 THEN <<Field(2, m.numPages)>> ELSE <<>>)

\* TxHistoryPage.decode skipping field 2
TxHistoryPageDecodeMut(data) ==
    FoldLeft(LAMBDA m, f :
                 CASE f.field = 1 -> [m EXCEPT !.txs = Append(@, TxDecode(f.body))]
                   [] OTHER -> m,
             [txs |-> <<>>, numPages |-> 0], data)

\* TxHistoryPage.decode
TxHistoryPageDecode(data) ==
    FoldLeft(LAMBDA m, f :
                 CASE f.field = 1 -> [m EXCEPT !.txs = Append(@, TxDecode(f.body))]
                   [] f.field = 2 -> [m EXCEPT !.numPages = f.body]
                   [] OTHER -> m,
             [txs |-> <<>>, numPages |-> 0], data)


----------------------------------------------------------------------------
(* Enums of chronik.ts and their conversions in index.ts                   *)

SlpTokenType == [FUNGIBLE |-> 0, NFT1_GROUP |-> 1, NFT1_CHILD |-> 2,
                 UNKNOWN_TOKEN_TYPE |-> 3, UNRECOGNIZED |-> -1]

SlpTxType == [GENESIS |-> 0, SEND |-> 1, MINT |-> 2, UNKNOWN_TX_TYPE |-> 3,
              UNRECOGNIZED |-> -1]

Network == [BCH |-> 0, XEC |-> 1, XPI |-> 2, XRG |-> 3, UNRECOGNIZED |-> -1]

UtxoStateVariant == [UNSPENT |-> 0, SPENT |-> 1, NO_SUCH_TX |-> 2,
                     NO_SUCH_OUTPUT |-> 3, UNRECOGNIZED |-> -1]

\* what a call or a conversion gives: a value, or a thrown Error
Return(v) == [kind |-> "return", value |-> v]
Throw(e) == [kind |-> "throw", error |-> e]

\* convertToNetwork
convertToNetworkMut(network) ==
    CASE network = Network.BCH -> Return("BCH")
      [] network = Network.XEC -> Return("XEC")
      [] network = Network.XPI -> Return("XPI")
      [] network = Network.XRG -> Return("XRG")
      [] OTHER -> Return("UNKNOWN")
convertToNetwork(network) ==
    CASE network = Network.BCH -> Return("BCH")
      [] network = Network.XEC -> Return("XEC")
      [] network = Network.XPI -> Return("XPI")
      [] network = Network.XRG -> Return("XRG")
      [] OTHER -> Throw(<<"Unknown network: ", network>>)

\* convertToUtxoStateVariant
convertToUtxoStateVariant(variant) ==
    CASE variant = UtxoStateVariant.UNSPENT -> Return("UNSPENT")
      [] variant = UtxoStateVariant.SPENT -> Return("SPENT")
      [] variant = UtxoStateVariant.NO_SUCH_TX -> Return("NO_SUCH_TX")
      [] variant = UtxoStateVariant.NO_SUCH_OUTPUT -> Return("NO_SUCH_OUTPUT")
      [] OTHER -> Throw(<<"Unknown UtxoStateVariant: ", variant>>)

\* convertToSlpMeta, first switch
convertToSlpTokenType(tokenType) ==
    CASE tokenType = SlpTokenType.FUNGIBLE -> Return("FUNGIBLE")
      [] tokenType = SlpTokenType.NFT1_GROUP -> Return("NFT1_GROUP")
      [] tokenType = SlpTokenType.NFT1_CHILD -> Return("NFT1_CHILD")
      [] tokenType = SlpTokenType.UNKNOWN_TOKEN_TYPE -> Return("UNKNOWN_TOKEN_TYPE")
      [] OTHER -> Throw(<<"Invalid token type: ", tokenType>>)

\* convertToSlpMeta, second switch
convertToSlpTxType(txType) ==
    CASE txType = SlpTxType.GENESIS -> Return("GENESIS")
      [] txType = SlpTxType.SEND -> Return("SEND")
      [] txType = SlpTxType.MINT -> Return("MINT")
      [] txType = SlpTxType.UNKNOWN_TX_TYPE -> Return("UNKNOWN_TX_TYPE")
      [] OTHER -> Throw(<<"Invalid token type: ", txType>>)

----------------------------------------------------------------------------
(* proto -> client conversions of index.ts. An optional member is <<>> or  *)
(* <<value>>; each conversion that can raise has an Error companion: the   *)
(* message of the Error the code throws on that input, as <<message>>, or  *)
(* <<>> when the code returns.                                             *)

OptMap(opt, F(_)) == IF opt = Undefined THEN Undefined ELSE <<F(opt[1])>>

Map(s, F(_)) == [i \in 1..Len(s) |-> F(s[i])]

\* convertToSlpToken
convertToSlpToken(token) ==
    [amount |-> token.amount, isMintBaton |-> token.isMintBaton]

\* the first of two Errors, in the order the code evaluates
OrElse(first, second) == IF first # Undefined THEN first ELSE second

\* the Error of the first element of s whose conversion throws
FirstError(s, Error(_)) ==
    LET errors == SelectSeq([i \in DOMAIN s |-> Error(s[i])],
                            LAMBDA e : e # Undefined)
    IN IF errors # <<>> THEN errors[1] ELSE Undefined

\* the Error of an enum conversion
ErrorOf(result) == IF result.kind = "throw" THEN <<result.error>> ELSE Undefined

\* convertToSlpMeta: the two switches run in order
convertToSlpMetaError(slpMeta) ==
    OrElse(ErrorOf(convertToSlpTokenType(slpMeta.tokenType)),
           ErrorOf(convertToSlpTxType(slpMeta.txType)))

convertToSlpMeta(slpMeta) ==
    [tokenType |-> convertToSlpTokenType(slpMeta.tokenType).value,
     txType |-> convertToSlpTxType(slpMeta.txType).value,
     tokenId |-> toHex(slpMeta.tokenId),
     groupTokenId |-> IF Len(slpMeta.groupTokenId) = 32
                      THEN <<toHex(slpMeta.groupTokenId)>> ELSE Undefined]

\* the characters of the bytes 32..95 and 97..126, in order
Utf8Printable ==
    <<" ", "!", "\"", "#", "$", "%", "&", "'", "(", ")", "*", "+",
     ",", "-", ".", "/", "0", "1", "2", "3", "4", "5", "6", "7",
     "8", "9", ":", ";", "<", "=", ">", "?", "@", "A", "B", "C",
     "D", "E", "F", "G", "H", "I", "J", "K", "L", "M", "N", "O",
     "P", "Q", "R", "S", "T", "U", "V", "W", "X", "Y", "Z", "[",
     "\\", "]", "^", "_", "a", "b", "c", "d", "e", "f", "g", "h",
     "i", "j", "k", "l", "m", "n", "o", "p", "q", "r", "s", "t",
     "u", "v", "w", "x", "y", "z", "{", "|", "}", "~">>

\* TextDecoder.decode on those bytes, each the UTF-8 encoding of a character
TextDecode(bytes) ==
    LET char(b) == CASE b \in 32..95 -> Utf8Printable[b - 31]
                     [] b \in 97..126 -> Utf8Printable[b - 32]
        decoded[i \in 0..Len(bytes)] ==
            IF i = 0 THEN "" ELSE decoded[i - 1] \o char(bytes[i])
    IN decoded[Len(bytes)]

\* convertToSlpGenesisInfo
convertToSlpGenesisInfo(info) ==
    [tokenTicker |-> TextDecode(info.tokenTicker),
     tokenName |-> TextDecode(info.tokenName),
     tokenDocumentUrl |-> TextDecode(info.tokenDocumentUrl),
     tokenDocumentHash |-> toHex(info.tokenDocumentHash),
     decimals |-> info.decimals]

\* convertToSlpTxData
convertToSlpTxDataError(slpTxData) ==
    IF slpTxData.slpMeta = Undefined
    THEN <<(<<"Invalid slpTxData: slpMeta is undefined">>)>>
    ELSE convertToSlpMetaError(slpTxData.slpMeta[1])

convertToSlpTxData(slpTxData) ==
    [slpMeta |-> convertToSlpMeta(slpTxData.slpMeta[1]),
     genesisInfo |-> OptMap(slpTxData.genesisInfo, convertToSlpGenesisInfo)]

\* convertToSlpBurn
convertToSlpBurnError(burn) ==
    IF burn.token = Undefined
    THEN <<(<<"Invalid burn: token is undefined">>)>> ELSE Undefined

convertToSlpBurn(burn) ==
    [token |-> convertToSlpToken(burn.token[1]), tokenId |-> toHex(burn.tokenId)]

\* convertToBlockMeta
convertToBlockMeta(block) ==
    [height |-> block.height, hash |-> toHexRev(block.hash),
     timestamp |-> block.timestamp]

\* convertToBlockInfo
convertToBlockInfo(block) ==
    [block EXCEPT !.hash = toHexRev(block.hash),
                  !.prevHash = toHexRev(block.prevHash)]

\* convertToTxInput
convertToTxInputError(input) ==
    IF input.prevOut = Undefined THEN <<(<<"Invalid proto, no prevOut">>)>>
    ELSE IF input.slpBurn # Undefined THEN convertToSlpBurnError(input.slpBurn[1])
    ELSE Undefined

convertToTxInput(input) ==
    [prevOut |-> [txid |-> toHexRev(input.prevOut[1].txid),
                  outIdx |-> input.prevOut[1].outIdx],
     inputScript |-> toHex(input.inputScript),
     outputScript |-> IF Len(input.outputScript) > 0
                      THEN <<toHex(input.outputScript)>> ELSE Undefined,
     value |-> input.value,
     sequenceNo |-> input.sequenceNo,
     slpBurn |-> OptMap(input.slpBurn, convertToSlpBurn),
     slpToken |-> OptMap(input.slpToken, convertToSlpToken)]

\* convertToTxOutput
convertToTxOutput(output) ==
    [value |-> output.value,
     outputScript |-> toHex(output.outputScript),
     slpToken |-> OptMap(output.slpToken, convertToSlpToken),
     spentBy |-> OptMap(output.spentBy,
                        LAMBDA sp : [txid |-> toHex(sp.txid), outIdx |-> sp.outIdx])]

\* convertToTx: the members are converted in the order they are written
convertToTxError(tx) ==
    OrElse(FirstError(tx.inputs, convertToTxInputError),
           OrElse(IF tx.slpTxData # Undefined
                  THEN convertToSlpTxDataError(tx.slpTxData[1]) ELSE Undefined,
                  ErrorOf(convertToNetwork(tx.network))))

\* convertToTx leaving slpErrorMsg out
convertToTxNoError(tx) ==
    [txid |-> toHexRev(tx.txid),
     version |-> tx.version,
     inputs |-> Map(tx.inputs, convertToTxInput),
     outputs |-> Map(tx.outputs, convertToTxOutput),
     lockTime |-> tx.lockTime,
     slpTxData |-> OptMap(tx.slpTxData, convertToSlpTxData),
     slpErrorMsg |-> Undefined,
     block |-> OptMap(tx.block, convertToBlockMeta),
     timeFirstSeen |-> tx.timeFirstSeen,
     network |-> convertToNetwork(tx.network).value]

convertToTx(tx) ==
    [txid |-> toHexRev(tx.txid),
     version |-> tx.version,
     inputs |-> Map(tx.inputs, convertToTxInput),
     outputs |-> Map(tx.outputs, convertToTxOutput),
     lockTime |-> tx.lockTime,
     slpTxData |-> OptMap(tx.slpTxData, convertToSlpTxData),
     slpErrorMsg |-> IF tx.slpErrorMsg # "" THEN <<tx.slpErrorMsg>> ELSE Undefined,
     block |-> OptMap(tx.block, convertToBlockMeta),
     timeFirstSeen |-> tx.timeFirstSeen,
     network |-> convertToNetwork(tx.network).value]

\* convertToUtxo
convertToUtxoError(utxo) ==
    IF utxo.outpoint = Undefined THEN <<(<<"UTXO outpoint is undefined">>)>>
    ELSE OrElse(IF utxo.slpMeta # Undefined
                THEN convertToSlpMetaError(utxo.slpMeta[1]) ELSE Undefined,
                ErrorOf(convertToNetwork(utxo.network)))

convertToUtxo(utxo) ==
    [outpoint |-> [txid |-> toHexRev(utxo.outpoint[1].txid),
                   outIdx |-> utxo.outpoint[1].outIdx],
     blockHeight |-> utxo.blockHeight,
     isCoinbase |-> utxo.isCoinbase,
     value |-> utxo.value,
     slpMeta |-> OptMap(utxo.slpMeta, convertToSlpMeta),
     slpToken |-> OptMap(utxo.slpToken, convertToSlpToken),
     network |-> convertToNetwork(utxo.network).value]

\* convertToBlock
convertToBlockError(block) ==
    IF block.blockInfo = Undefined THEN <<(<<"Block has no blockInfo">>)>>
    ELSE FirstError(block.txs, convertToTxError)

convertToBlock(block) ==
    [blockInfo |-> convertToBlockInfo(block.blockInfo[1]),
     txs |-> Map(block.txs, convertToTx)]

----------------------------------------------------------------------------
(* WsEndpoint *)

\* WsEndpoint._connect: a new socket becomes this._ws
_connect(ss) == Append(ss, NewSocket)

QueryIdle == call = [op |-> "none"] /\ outcome = [kind |-> "none"]

\* new WsEndpoint(wsUrl, config)
Init ==
    /\ IxIdle
    /\ _closed = FALSE
    /\ _subs = <<>>
    /\ socks = _connect(<<>>)
    /\ _ws = 1
    /\ pending = {}
    /\ delivered = <<>>
    /\ rejected = <<>>
    /\ arrived = <<>>
    /\ published = <<>>
    /\ active = {}
    /\ nCalls = 0
    /\ nReconnect = 0
    /\ _connected = FALSE
    /\ waits = <<>>
    /\ inOnClose = 0
    /\ env \in [dataKind : {"Buffer", "Blob"}, onMessage : BOOLEAN,
                onReconnect : BOOLEAN]
    /\ QueryIdle

\* WsEndpoint.subscribe
subscribe(p) ==
    /\ nCalls < MaxCalls
    /\ nCalls' = nCalls + 1
    /\ _subs' = Append(_subs, p)
    /\ socks' = _subUnsub(socks, _ws, TRUE, p[1], p[2])
    /\ active' = active \cup {p}
    /\ UNCHANGED <<_closed, _ws, pending, delivered, rejected, arrived, published,
                   nReconnect, env, call, outcome, ixVars,
                   _connected, waits, inOnClose>>

\* WsEndpoint.unsubscribe
unsubscribe(p) ==
    /\ nCalls < MaxCalls
    /\ nCalls' = nCalls + 1
    /\ _subs' = SelectSeq(_subs, LAMBDA sub : sub[1] # p[1] \/ sub[2] # p[2])
    /\ socks' = _subUnsub(socks, _ws, FALSE, p[1], p[2])
    /\ active' = active \ {p}
    /\ UNCHANGED <<_closed, _ws, pending, delivered, rejected, arrived, published,
                   nReconnect, env, call, outcome, ixVars,
                   _connected, waits, inOnClose>>

\* WsEndpoint.close: WebSocket.close starts the closing handshake of a socket
\* that is connecting or open
close ==
    /\ _closed' = TRUE
    /\ socks' = IF socks[_ws].readyState \in {"CONNECTING", "OPEN"}
                THEN [socks EXCEPT ![_ws].readyState = "CLOSING"]
                ELSE socks
    /\ UNCHANGED <<_subs, _ws, pending, delivered, rejected, arrived, published, active,
                   nCalls, nReconnect, env, call, outcome, ixVars,
                   _connected, waits, inOnClose>>

\* WsEndpoint.waitForOpen up to its await: the call takes the promise
\* _connected holds and suspends on it, whether or not it has resolved
waitForOpen ==
    /\ Len(waits) < MaxWaits
    /\ waits' = Append(waits, [on |-> _ws, resolved |-> _connected, done |-> FALSE])
    /\ UNCHANGED <<_closed, _subs, _ws, socks, pending, delivered, rejected, arrived,
                   published, active, nCalls, nReconnect, env, call, outcome, ixVars,
                   _connected, inOnClose>>

\* waitForOpen behind its await: the promise the call suspended on has
\* resolved and the call returns to its awaiter, in a job of its own that
\* runs once the code that is running (a handler, config.onReconnect) ends
waitForOpenResume(k) ==
    /\ inOnClose = 0
    /\ waits[k].resolved
    /\ ~waits[k].done
    /\ waits' = [waits EXCEPT ![k].done = TRUE]
    /\ UNCHANGED <<_closed, _subs, _ws, socks, pending, delivered, rejected, arrived,
                   published, active, nCalls, nReconnect, env, call, outcome, ixVars,
                   _connected, inOnClose>>

\* ws.onopen of socket i: replay _subs on this._ws, then resolve the promise
\* made with the socket, which queues the return of the calls awaiting it
OnOpen(i) ==
    /\ inOnClose = 0
    /\ socks[i].readyState = "CONNECTING"
    /\ socks' = Replay([socks EXCEPT ![i].readyState = "OPEN"], _ws, _subs)
    /\ _connected' = (i = _ws \/ _connected)
    /\ waits' = [k \in DOMAIN waits |->
                    IF waits[k].on = i THEN [waits[k] EXCEPT !.resolved = TRUE]
                    ELSE waits[k]]
    /\ UNCHANGED <<_closed, _subs, _ws, pending, delivered, rejected, arrived, published,
                   active, nCalls, nReconnect, env, call, outcome, ixVars,
                   inOnClose>>

\* an onclose handler that reconnects only when onReconnect is configured
OnCloseMut(i) ==
    /\ inOnClose = 0
    /\ socks[i].readyState # "CLOSED"
    /\ LET down == [socks EXCEPT ![i] = [readyState |-> "CLOSED", sent |-> <<>>,
                                         srvPos |-> 0, s2c |-> <<>>]]
       IN IF _closed \/ ~env.onReconnect
          THEN /\ socks' = down
               /\ UNCHANGED <<_ws, nReconnect, _connected, inOnClose>>
          ELSE /\ socks' = down
               /\ nReconnect' = nReconnect + 1
               /\ inOnClose' = i
               /\ UNCHANGED <<_ws, _connected>>
    /\ UNCHANGED <<_closed, _subs, pending, delivered, rejected, arrived, published, active,
                   nCalls, env, call, outcome, ixVars, waits>>

\* ws.onclose of socket i: the socket is CLOSED and its traffic is gone; after
\* close() nothing more happens; without onReconnect, _connect creates a
\* socket; with it, the handler first enters config.onReconnect, whose code
\* may call the endpoint before it returns
OnClose(i) ==
    /\ inOnClose = 0
    /\ socks[i].readyState # "CLOSED"
    /\ LET down == [socks EXCEPT ![i] = [readyState |-> "CLOSED", sent |-> <<>>,
                                         srvPos |-> 0, s2c |-> <<>>]]
       IN IF _closed
          THEN /\ socks' = down
               /\ UNCHANGED <<_ws, nReconnect, _connected, inOnClose>>
          ELSE IF env.onReconnect
          THEN /\ socks' = down
               /\ nReconnect' = nReconnect + 1
               /\ inOnClose' = i
               /\ UNCHANGED <<_ws, _connected>>
          ELSE /\ socks' = _connect(down)
               /\ _ws' = Len(socks) + 1
               /\ _connected' = FALSE
               /\ UNCHANGED <<nReconnect, inOnClose>>
    /\ UNCHANGED <<_closed, _subs, pending, delivered, rejected, arrived, published, active,
                   nCalls, env, call, outcome, ixVars, waits>>

\* the onclose handler creating a socket that does not become this._ws
ReconnectMut ==
    /\ inOnClose # 0
    /\ socks' = _connect(socks)
    /\ _connected' = FALSE
    /\ inOnClose' = 0
    /\ UNCHANGED <<_closed, _subs, _ws, pending, delivered, rejected, arrived, published,
                   active, nCalls, nReconnect, env, call, outcome, ixVars, waits>>

\* config.onReconnect returns and the onclose handler goes on to _connect
Reconnect ==
    /\ inOnClose # 0
    /\ socks' = _connect(socks)
    /\ _ws' = Len(socks) + 1
    /\ _connected' = FALSE
    /\ inOnClose' = 0
    /\ UNCHANGED <<_closed, _subs, pending, delivered, rejected, arrived, published, active,
                   nCalls, nReconnect, env, call, outcome, ixVars, waits>>

\* ws.onmessage of socket i -> _handleMsg: without onMessage the frame is
\* dropped; a Buffer is decoded and dispatched at once; a Blob suspends the
\* handler until its arrayBuffer() settles
OnMessage(i) ==
    /\ inOnClose = 0
    /\ socks[i].readyState \in {"OPEN", "CLOSING"}
    /\ socks[i].s2c # <<>>
    /\ socks' = [socks EXCEPT ![i].s2c = Tail(@)]
    /\ arrived' = Append(arrived, Head(socks[i].s2c))
    /\ IF ~env.onMessage
       THEN UNCHANGED <<pending, delivered, rejected>>
       ELSE IF env.dataKind = "Buffer"
       THEN /\ delivered' = Deliver(delivered, Head(socks[i].s2c))
            /\ rejected' = Reject(rejected, Head(socks[i].s2c))
            /\ UNCHANGED pending
       ELSE /\ pending' = pending \cup {[n |-> Len(arrived) + 1,
                                         data |-> Head(socks[i].s2c)]}
            /\ UNCHANGED <<delivered, rejected>>
    /\ UNCHANGED <<_closed, _subs, _ws, published, active, nCalls, nReconnect,
                   env, call, outcome, ixVars,
                   _connected, waits, inOnClose>>

\* _handleMsg resumed after `await blob.arrayBuffer()`: the reads of distinct
\* blobs settle in no fixed order
HandleMsgResume(h) ==
    /\ inOnClose = 0
    /\ h \in pending
    /\ pending' = pending \ {h}
    /\ delivered' = Deliver(delivered, h.data)
    /\ rejected' = Reject(rejected, h.data)
    /\ UNCHANGED <<_closed, _subs, _ws, socks, arrived, published, active, nCalls,
                   nReconnect, env, call, outcome, ixVars,
                   _connected, waits, inOnClose>>

----------------------------------------------------------------------------
(* The indexer's side of the socket (Subscription Registry)                *)

\* the indexer reads the next Subscription frame of socket i
ServerRecv(i) ==
    /\ socks[i].readyState \in {"OPEN", "CLOSING"}
    /\ socks[i].srvPos < Len(socks[i].sent)
    /\ socks' = [socks EXCEPT ![i].srvPos = @ + 1]
    /\ UNCHANGED <<_closed, _subs, _ws, pending, delivered, rejected, arrived, published,
                   active, nCalls, nReconnect, env, call, outcome, ixVars,
                   _connected, waits, inOnClose>>

\* the indexer commits an event touching some scripts and the registry pushes
\* it to the subscribed channels
Publish(type, touched) ==
    /\ LET txid == EventTxid(Len(published) + 1)
           keys == {PairKey(p) : p \in touched}
           n(i) == IF socks[i].readyState = "OPEN"
                   THEN Deliveries(SrvSubs(i), keys) ELSE 0
       IN /\ socks' = [i \in DOMAIN socks |->
                          [socks[i] EXCEPT !.s2c =
                              @ \o [k \in 1..n(i) |-> EventFrame(type, txid)]]]
          /\ published' = Append(published,
                 [type |-> type, txid |-> txid,
                  chans |-> {i \in DOMAIN socks :
                                /\ socks[i].readyState = "OPEN"
                                /\ SrvSubs(i) \cap keys # {}}])
    /\ UNCHANGED <<_closed, _subs, _ws, pending, delivered, rejected, arrived, active, nCalls,
                   nReconnect, env, call, outcome, ixVars,
                   _connected, waits, inOnClose>>

Next ==
    \/ \E p \in Pairs : subscribe(p)
    \/ \E p \in Pairs : unsubscribe(p)
    \/ close
    \/ \E i \in DOMAIN socks : OnOpen(i)
    \/ \E i \in DOMAIN socks : (_closed \/ Len(socks) < MaxSockets) /\ OnClose(i)
    \/ Reconnect
    \/ \E i \in DOMAIN socks : OnMessage(i)
    \/ \E h \in pending : HandleMsgResume(h)
    \/ \E i \in DOMAIN socks : ServerRecv(i)
    \/ \E type \in Range(EventTypes), touched \in (SUBSET Pairs) \ {{}} :
           Len(published) < MaxEvents /\ Publish(type, touched)

Spec == Init /\ [][Next]_vars

\* the endpoint and its caller alone: the calls of the public interface and
\* the open and close events of the sockets
LifeNext ==
    \/ \E p \in Pairs : subscribe(p)
    \/ \E p \in Pairs : unsubscribe(p)
    \/ close
    \/ waitForOpen
    \/ \E k \in DOMAIN waits : waitForOpenResume(k)
    \/ \E i \in DOMAIN socks : OnOpen(i)
    \/ \E i \in DOMAIN socks : (_closed \/ Len(socks) < MaxSockets) /\ OnClose(i)
    \/ Reconnect

SpecLife == Init /\ [][LifeNext]_vars

\* the callback returns: config.onReconnect runs to its end; and the job
\* queue is run: a call whose promise has resolved returns
SpecLifeFair ==
    /\ SpecLife
    /\ WF_vars(Reconnect)
    /\ WF_vars(\E k \in DOMAIN waits : waitForOpenResume(k))

\* the endpoint, its sockets and the calls that send on them, without the
\* waitForOpen calls: they change waits alone, which the close handler
\* neither reads nor writes
DropNext ==
    \/ \E p \in Pairs : subscribe(p)
    \/ \E p \in Pairs : unsubscribe(p)
    \/ close
    \/ \E i \in DOMAIN socks : OnOpen(i)
    \/ \E i \in DOMAIN socks : (_closed \/ Len(socks) < MaxAttempts) /\ OnClose(i)
    \/ Reconnect

SpecDrop == Init /\ [][DropNext]_vars

\* the callback returns: config.onReconnect runs to its end
SpecDropFair == SpecDrop /\ WF_vars(Reconnect)

----------------------------------------------------------------------------
(* The indexer behind the HTTP interface, as the written specification     *)
(* describes it (sections 3, 4.1, 4.4 and 6): a chain of one block with    *)
(* two transactions, B spending output 0 of A.                             *)

TxidA == <<18, 171>>
TxidB == <<52, 205>>
BlockHash1 == <<86, 239>>
PrevHash1 == <<1, 35>>
ScriptBytes == <<118, 169>>

\* the script both transactions pay to, as a (scriptType, scriptPayload) pair
ChainScript == <<"p2pkh", <<"a", "b", "1", "2">>>>

BlockMeta1 == [height |-> 1, hash |-> BlockHash1, timestamp |-> 1600000000]

ProtoTxA ==
    [txid |-> TxidA, version |-> 1,
     inputs |-> <<[prevOut |-> <<[txid |-> PrevHash1, outIdx |-> 3]>>,
                   inputScript |-> <<81>>, outputScript |-> <<>>, value |-> 0,
                   sequenceNo |-> 0, slpBurn |-> Undefined,
                   slpToken |-> Undefined]>>,
     outputs |-> <<[value |-> 50, outputScript |-> ScriptBytes,
                    slpToken |-> Undefined,
                    spentBy |-> <<[txid |-> TxidB, outIdx |-> 0]>>],
                   [value |-> 25, outputScript |-> ScriptBytes,
                    slpToken |-> Undefined, spentBy |-> Undefined]>>,
     lockTime |-> 0, slpTxData |-> Undefined, slpErrorMsg |-> "",
     block |-> <<BlockMeta1>>, timeFirstSeen |-> 0, network |-> Network.XEC]

ProtoTxB ==
    [txid |-> TxidB, version |-> 2,
     inputs |-> <<[prevOut |-> <<[txid |-> TxidA, outIdx |-> 0]>>,
                   inputScript |-> <<71>>, outputScript |-> ScriptBytes,
                   value |-> 50, sequenceNo |-> 0, slpBurn |-> Undefined,
                   slpToken |-> Undefined]>>,
     outputs |-> <<[value |-> 49, outputScript |-> ScriptBytes,
                    slpToken |-> <<[amount |-> 7, isMintBaton |-> FALSE]>>,
                    spentBy |-> Undefined]>>,
     lockTime |-> 0,
     slpTxData |-> <<[slpMeta |-> <<[tokenType |-> SlpTokenType.FUNGIBLE,
                                     txType |-> SlpTxType.GENESIS,
                                     tokenId |-> Reverse(TxidB),
                                     groupTokenId |-> <<>>]>>,
                      genesisInfo |-> Undefined]>>,
     slpErrorMsg |-> "", block |-> <<BlockMeta1>>, timeFirstSeen |-> 0,
     network |-> Network.XEC]

ChainTxs == <<ProtoTxA, ProtoTxB>>

ProtoBlockInfo1 ==
    [hash |-> BlockHash1, prevHash |-> PrevHash1, height |-> 1, nBits |-> 0,
     timestamp |-> 1600000000, blockSize |-> 300, numTxs |-> 2, numInputs |-> 2,
     numOutputs |-> 3, sumInputSats |-> 50, sumCoinbaseOutputSats |-> 75,
     sumNormalOutputSats |-> 49, sumBurnedSats |-> 0]

ProtoBlock1 == [blockInfo |-> <<ProtoBlockInfo1>>, txs |-> ChainTxs]

\* the unspent outputs paying to ChainScript
ProtoUtxos ==
    [scriptUtxos |-> <<[outputScript |-> ScriptBytes,
        utxos |-> <<[outpoint |-> <<[txid |-> TxidA, outIdx |-> 1]>>,
                     blockHeight |-> 1, isCoinbase |-> FALSE, value |-> 25,
                     slpMeta |-> Undefined, slpToken |-> Undefined,
                     network |-> Network.XEC],
                    [outpoint |-> <<[txid |-> TxidB, outIdx |-> 0]>>,
                     blockHeight |-> 1, isCoinbase |-> FALSE, value |-> 49,
                     slpMeta |-> ProtoTxB.slpTxData[1].slpMeta,
                     slpToken |-> <<[amount |-> 7, isMintBaton |-> FALSE]>>,
                     network |-> Network.XEC]>>]>>]

\* error responses: a status other than 200 with an encoded Error
ErrorValues ==
    [errorCode : {"", "not-found"}, msg : {"", "no such entry"}, isUserError : BOOLEAN]

ErrorStatuses == {400, 404, 500}

ErrorResponses ==
    {[status |-> st, body |-> ErrorEncode(e)] : st \in ErrorStatuses, e \in ErrorValues}

Ok(body) == [status |-> 200, body |-> body]

\* section 4.4: each outpoint is looked up on its own and classified
UtxoStateOf(outpoint) ==
    LET known == {i \in DOMAIN ChainTxs : ChainTxs[i].txid = outpoint.txid}
    IN IF known = {}
       THEN [height |-> -1, isConfirmed |-> FALSE,
             state |-> UtxoStateVariant.NO_SUCH_TX]
       ELSE LET tx == ChainTxs[CHOOSE i \in known : TRUE]
            IN IF outpoint.outIdx >= Len(tx.outputs)
               THEN [height |-> -1, isConfirmed |-> FALSE,
                     state |-> UtxoStateVariant.NO_SUCH_OUTPUT]
               ELSE [height |-> tx.block[1].height, isConfirmed |-> TRUE,
                     state |-> IF tx.outputs[outpoint.outIdx + 1].spentBy # Undefined
                               THEN UtxoStateVariant.SPENT
                               ELSE UtxoStateVariant.UNSPENT]

\* a lookup that finds nothing is answered with an error response
NotFound ==
    [status |-> 404,
     body |-> ErrorEncode([errorCode |-> "not-found", msg |-> "no such entry",
                           isUserError |-> TRUE])]

\* a request may fail for any other reason: no fault, or the error response
Faults == {Undefined} \cup {<<r>> : r \in ErrorResponses}

Answer(fault, response) == IF fault # Undefined THEN fault[1] ELSE response

\* POST /validate-utxos
ServeValidateUtxos(request, fault) ==
    Answer(fault, Ok(ValidateUtxoResponseEncode(
        [utxoStates |-> Map(ValidateUtxoRequestDecode(request).outpoints,
                            UtxoStateOf)])))

\* GET /tx/:txid (the path names the txid in display order)
ServeTx(txid, fault) ==
    Answer(fault,
           IF \E i \in DOMAIN ChainTxs : toHexRev(ChainTxs[i].txid) = txid
           THEN Ok(ChainTxs[CHOOSE i \in DOMAIN ChainTxs :
                                toHexRev(ChainTxs[i].txid) = txid])
           ELSE NotFound)

\* GET /block/:hash_or_height
ServeBlockByHeight(height, fault) ==
    Answer(fault, IF height = ProtoBlockInfo1.height THEN Ok(ProtoBlock1) ELSE NotFound)

ServeBlockByHash(hash, fault) ==
    Answer(fault, IF hash = toHexRev(BlockHash1) THEN Ok(ProtoBlock1) ELSE NotFound)

\* GET /blocks/:start/:end
ServeBlocks(startHeight, endHeight, fault) ==
    Answer(fault, Ok([blocks |-> IF startHeight <= 1 /\ 1 <= endHeight
                                 THEN <<ProtoBlockInfo1>> ELSE <<>>]))

\* page size the indexer uses when the request names none, and its maximum
DefaultPageSize == 2
MaxPageSize == 3

InvalidArgument ==
    [status |-> 400,
     body |-> ErrorEncode([errorCode |-> "invalid-argument", msg |-> "bad page size",
                           isUserError |-> TRUE])]

\* section 4.1, getHistoryPage
HistoryPage(entries, page, pageSize) ==
    [txs |-> SubSeq(entries, page * pageSize + 1,
                    IF (page + 1) * pageSize < Len(entries)
                    THEN (page + 1) * pageSize ELSE Len(entries)),
     numPages |-> (Len(entries) + pageSize - 1) \div pageSize]

\* GET /script/:type/:payload/history
ServeHistory(script, page, pageSize, fault) ==
    LET p == IF page = Undefined THEN 0 ELSE page[1]
        k == IF pageSize = Undefined THEN DefaultPageSize ELSE pageSize[1]
        entries == IF script = ChainScript THEN ChainTxs ELSE <<>>
    IN Answer(fault, IF k = 0 \/ k > MaxPageSize THEN InvalidArgument
                     ELSE Ok(TxHistoryPageEncode(HistoryPage(entries, p, k))))

\* GET /script/:type/:payload/utxos
ServeUtxos(script, fault) ==
    Answer(fault, Ok(IF script = ChainScript THEN ProtoUtxos
                     ELSE [scriptUtxos |-> <<>>]))

----------------------------------------------------------------------------
(* ChronikClient and ScriptEndpoint.  Each call is an async function that  *)
(* awaits its request, so it runs in two steps: the call up to the await, *)
(* which sends the request (call.response is what the server answers, in  *)
(* flight until the call resumes), and the call resumed with the response, *)
(* which gives the caller its outcome.  Other callbacks may run between   *)
(* the two.  The calls keep no state between them, so a behaviour follows *)
(* one call.                                                               *)

\* ensureResponseErrorThrown: the Error it raises, or nothing
ensureResponseErrorThrown(response, path) ==
    IF response.status # 200
    THEN Throw(<<"Failed getting ", path, " (", ErrorDecode(response.body).errorCode,
                 "): ", ErrorDecode(response.body).msg>>)
    ELSE Return("no error")

\* _get: the response body, unless ensureResponseErrorThrown raises
_get(response, path) ==
    IF ensureResponseErrorThrown(response, path).kind = "throw"
    THEN ensureResponseErrorThrown(response, path)
    ELSE Return(response.body)

\* _post
_post(response, path) ==
    IF ensureResponseErrorThrown(response, path).kind = "throw"
    THEN ensureResponseErrorThrown(response, path)
    ELSE Return(response.body)

\* the request body of validateUtxos
validateUtxosRequestNoRev(outpoints) ==
    ValidateUtxoRequestEncode(
        [outpoints |-> Map(outpoints, LAMBDA o : [txid |-> fromHex(o.txid),
                                                  outIdx |-> o.outIdx])])
validateUtxosRequest(outpoints) ==
    ValidateUtxoRequestEncode(
        [outpoints |-> Map(outpoints, LAMBDA o : [txid |-> fromHexRev(o.txid),
                                                  outIdx |-> o.outIdx])])

\* what validateUtxos makes of the response body
validateUtxosResult(data) ==
    LET states == ValidateUtxoResponseDecode(data).utxoStates
        error == FirstError(states, LAMBDA st :
                     ErrorOf(convertToUtxoStateVariant(st.state)))
    IN IF error # Undefined
       THEN Throw(error[1])
       ELSE Return(Map(states, LAMBDA st :
                [height |-> st.height, isConfirmed |-> st.isConfirmed,
                 state |-> convertToUtxoStateVariant(st.state).value]))

\* the query string without the page
historyQueryMut(page, pageSize) ==
    IF pageSize # Undefined THEN <<"?page_size=", pageSize[1]>> ELSE <<>>

\* the query string taking a page or page size of 0 for one not given
historyQueryTruthy(page, pageSize) ==
    LET given(x) == x # Undefined /\ x[1] # 0
    IN IF given(page) /\ given(pageSize)
       THEN <<"?page=", page[1], "&page_size=", pageSize[1]>>
       ELSE IF given(page) THEN <<"?page=", page[1]>>
       ELSE IF given(pageSize) THEN <<"?page_size=", pageSize[1]>>
       ELSE <<>>

\* the query string of ScriptEndpoint.history
historyQuery(page, pageSize) ==
    IF page # Undefined /\ pageSize # Undefined
    THEN <<"?page=", page[1], "&page_size=", pageSize[1]>>
    ELSE IF page # Undefined THEN <<"?page=", page[1]>>
    ELSE IF pageSize # Undefined THEN <<"?page_size=", pageSize[1]>>
    ELSE <<>>

\* what a call makes of what _get gave: the Error of _get, the Error of the
\* conversion, or the converted value
Finish(got, Error(_), Convert(_)) ==
    IF got.kind = "throw" THEN got
    ELSE LET error == Error(got.value)
         IN IF error # Undefined THEN Throw(error[1])
            ELSE Return(Convert(got.value))

\* whether the request of call op is out and its response not yet in
Awaiting(op) == call.op = op /\ outcome = [kind |-> "none"]

\* ChronikClient.block, up to `await _get(...)`
block(hashOrHeight, response) ==
    /\ QueryIdle
    /\ call' = [op |-> "block", path |-> <<"/block/", hashOrHeight>>,
                response |-> response]
    /\ UNCHANGED <<outcome, wsVars, ixVars>>

\* ChronikClient.block resumed with the response
blockResume ==
    /\ Awaiting("block")
    /\ outcome' = Finish(_get(call.response, call.path),
                         convertToBlockError, convertToBlock)
    /\ UNCHANGED <<call, wsVars, ixVars>>

\* ChronikClient.blocks, up to `await _get(...)`
blocks(startHeight, endHeight, response) ==
    /\ QueryIdle
    /\ call' = [op |-> "blocks", path |-> <<"/blocks/", startHeight, "/", endHeight>>,
                response |-> response]
    /\ UNCHANGED <<outcome, wsVars, ixVars>>

\* ChronikClient.blocks resumed with the response; convertToBlockInfo never throws
blocksResume ==
    /\ Awaiting("blocks")
    /\ outcome' = Finish(_get(call.response, call.path),
                         LAMBDA m : Undefined,
                         LAMBDA m : Map(m.blocks, convertToBlockInfo))
    /\ UNCHANGED <<call, wsVars, ixVars>>

\* ChronikClient.tx, up to `await _get(...)`
tx(txid, response) ==
    /\ QueryIdle
    /\ call' = [op |-> "tx", path |-> <<"/tx/", txid>>, response |-> response]
    /\ UNCHANGED <<outcome, wsVars, ixVars>>

\* ChronikClient.tx resumed with the response
txResume ==
    /\ Awaiting("tx")
    /\ outcome' = Finish(_get(call.response, call.path), convertToTxError, convertToTx)
    /\ UNCHANGED <<call, wsVars, ixVars>>

\* fromHex where it refuses the string: only a string that is no hex can
\* be refused; the text of the error is not known
fromHexError(str) == Throw(<<"fromHex refuses ", str>>)

\* no request went out, so no response comes in
Unsent == [status |-> 0, body |-> <<>>]

\* ChronikClient.validateUtxos, up to `await _post(...)`: the txids are
\* converted one after the other, with no catch around the conversion, before
\* the request is made; when fromHexRev throws on one of them the call ends
\* there, rejected with that error, and nothing is sent
validateUtxos(outpoints, hexThrows, response) ==
    /\ QueryIdle
    /\ IF hexThrows /\ \E i \in DOMAIN outpoints : ~IsHex(outpoints[i].txid)
       THEN /\ call' = [op |-> "validateUtxos", path |-> <<"/validate-utxos">>,
                        outpoints |-> outpoints, request |-> Undefined,
                        response |-> Unsent]
            /\ outcome' = fromHexError(
                   outpoints[CHOOSE i \in DOMAIN outpoints :
                                 /\ ~IsHex(outpoints[i].txid)
                                 /\ \A k \in 1..(i - 1) : IsHex(outpoints[k].txid)].txid)
       ELSE /\ call' = [op |-> "validateUtxos", path |-> <<"/validate-utxos">>,
                        outpoints |-> outpoints,
                        request |-> validateUtxosRequest(outpoints),
                        response |-> response]
            /\ UNCHANGED outcome
    /\ UNCHANGED <<wsVars, ixVars>>

\* ChronikClient.validateUtxos resumed with the response
validateUtxosResume ==
    /\ Awaiting("validateUtxos")
    /\ outcome' = IF _post(call.response, call.path).kind = "throw"
                  THEN _post(call.response, call.path)
                  ELSE validateUtxosResult(_post(call.response, call.path).value)
    /\ UNCHANGED <<call, wsVars, ixVars>>

\* the path ScriptEndpoint.history requests
historyPath(script, page, pageSize) ==
    <<"/script/", script[1], "/", script[2], "/history", historyQuery(page, pageSize)>>

\* what ScriptEndpoint.history makes of the response
historyResult(response, path) ==
    LET data == _get(response, path)
    IN IF data.kind = "throw" THEN data
       ELSE Finish(Return(TxHistoryPageDecode(data.value)),
                   LAMBDA historyPage : FirstError(historyPage.txs, convertToTxError),
                   LAMBDA historyPage : [txs |-> Map(historyPage.txs, convertToTx),
                                         numPages |-> historyPage.numPages])

\* ScriptEndpoint.history, up to `await _get(...)`
history(script, page, pageSize, response) ==
    /\ QueryIdle
    /\ call' = [op |-> "history", path |-> historyPath(script, page, pageSize),
                response |-> response, page |-> page, pageSize |-> pageSize]
    /\ UNCHANGED <<outcome, wsVars, ixVars>>

\* ScriptEndpoint.history resumed with the response
historyResume ==
    /\ Awaiting("history")
    /\ outcome' = historyResult(call.response, call.path)
    /\ UNCHANGED <<call, wsVars, ixVars>>

\* ScriptEndpoint.utxos, up to `await _get(...)`
utxos(script, response) ==
    /\ QueryIdle
    /\ call' = [op |-> "utxos",
                path |-> <<"/script/", script[1], "/", script[2], "/utxos">>,
                response |-> response]
    /\ UNCHANGED <<outcome, wsVars, ixVars>>

\* ScriptEndpoint.utxos resumed with the response: the scripts and, within
\* each, the utxos are converted in order
utxosResume ==
    /\ Awaiting("utxos")
    /\ outcome' = Finish(_get(call.response, call.path),
                         LAMBDA m : FirstError(m.scriptUtxos, LAMBDA su :
                                        FirstError(su.utxos, convertToUtxoError)),
                         LAMBDA m : Map(m.scriptUtxos, LAMBDA su :
                             [outputScript |-> toHex(su.outputScript),
                              utxos |-> Map(su.utxos, convertToUtxo)]))
    /\ UNCHANGED <<call, wsVars, ixVars>>

----------------------------------------------------------------------------
(* Specification of the query calls                                        *)

MaxOutpoints == 4   \* outpoints per validateUtxos batch
MaxHeight == 2      \* block heights a caller asks for
MaxPage == 2        \* page numbers and page sizes a caller asks for

\* display-order hex strings callers pass
HexTxidA == <<"a", "b", "1", "2">>
HexUnknownTxid == <<"1", "2", "a", "b">>
HexShortTxid == <<"a", "b">>
HexLongTxid == <<"a", "b", "1", "2", "0", "0">>
NoHexTxid == <<"z", "z", "1", "2">>
OddTxid == <<"a", "b", "1">>
HexBlockHash1 == <<"e", "f", "5", "6">>

\* outpoints of a batch: spent, unspent, out of range, unknown, malformed
OutpointChoices ==
    {[txid |-> HexTxidA, outIdx |-> 0], [txid |-> HexTxidA, outIdx |-> 1],
     [txid |-> HexTxidA, outIdx |-> 2], [txid |-> HexUnknownTxid, outIdx |-> 0],
     [txid |-> HexShortTxid, outIdx |-> 0], [txid |-> HexLongTxid, outIdx |-> 1],
     [txid |-> NoHexTxid, outIdx |-> 0], [txid |-> OddTxid, outIdx |-> 0]}

Batches == UNION {[1..n -> OutpointChoices] : n \in 0..MaxOutpoints}

OptNat(max) == {Undefined} \cup {<<n>> : n \in 0..max}

\* no WsEndpoint has been constructed: no socket exists
WsIdle ==
    /\ _closed = FALSE
    /\ _subs = <<>>
    /\ socks = <<>>
    /\ _ws = 0
    /\ pending = {}
    /\ delivered = <<>>
    /\ rejected = <<>>
    /\ arrived = <<>>
    /\ published = <<>>
    /\ active = {}
    /\ nCalls = 0
    /\ nReconnect = 0
    /\ _connected = FALSE
    /\ waits = <<>>
    /\ inOnClose = 0

QueryInit ==
    /\ IxIdle
    /\ WsIdle
    /\ env = [dataKind |-> "Buffer", onMessage |-> TRUE, onReconnect |-> FALSE]
    /\ QueryIdle

QueryNext ==
    \/ QueryIdle /\ \E h \in 0..MaxHeight, f \in Faults :
           block(h, ServeBlockByHeight(h, f))
    \/ QueryIdle /\ \E h \in {HexBlockHash1, HexTxidA}, f \in Faults :
           block(h, ServeBlockByHash(h, f))
    \/ QueryIdle /\ \E s, e \in 0..MaxHeight, f \in Faults :
           blocks(s, e, ServeBlocks(s, e, f))
    \/ QueryIdle /\ \E t \in {HexTxidA, toHexRev(TxidB), HexUnknownTxid}, f \in Faults :
           tx(t, ServeTx(t, f))
    \/ QueryIdle /\ \E b \in Batches, f \in Faults :
           validateUtxos(b, FALSE, ServeValidateUtxos(validateUtxosRequest(b), f))
    \/ QueryIdle /\ \E b \in {x \in Batches : \E i \in DOMAIN x : ~IsHex(x[i].txid)} :
           validateUtxos(b, TRUE, Unsent)
    \/ QueryIdle /\ \E s \in Pairs, p \in OptNat(MaxPage), k \in OptNat(MaxPage),
                       f \in Faults :
           history(s, p, k, ServeHistory(s, p, k, f))
    \/ QueryIdle /\ \E s \in Pairs, f \in Faults : utxos(s, ServeUtxos(s, f))
    \/ blockResume
    \/ blocksResume
    \/ txResume
    \/ validateUtxosResume
    \/ historyResume
    \/ utxosResume

SpecQuery == QueryInit /\ [][QueryNext]_vars

----------------------------------------------------------------------------
(* Specification of the handling of one frame: the socket is open and the  *)
(* peer has pushed one SubscribeMsg frame of any content.                  *)

MaxFields == 2   \* fields per SubscribeMsg frame

\* bodies of the event variants and of the Error variant
TxidBodies == {[txid |-> TxidA], [txid |-> <<>>]}
ErrorBodies ==
    {[errorCode |-> "not-found", msg |-> "no such entry", isUserError |-> TRUE],
     [errorCode |-> "", msg |-> "", isUserError |-> FALSE]}

\* the fields of a frame: the five variants, and a field number the schema
\* does not know (skipped by the decoder)
FrameFields ==
    {[field |-> 1, body |-> b] : b \in ErrorBodies}
        \cup {[field |-> k, body |-> b] : k \in 2..6, b \in TxidBodies}

Frames == UNION {[1..n -> FrameFields] : n \in 0..MaxFields}

MsgInit ==
    /\ IxIdle
    /\ _closed = FALSE
    /\ _subs = <<>>
    /\ \E frame \in Frames :
           socks = <<[NewSocket EXCEPT !.readyState = "OPEN", !.s2c = <<frame>>]>>
    /\ _ws = 1
    /\ pending = {}
    /\ delivered = <<>>
    /\ rejected = <<>>
    /\ arrived = <<>>
    /\ published = <<>>
    /\ active = {}
    /\ nCalls = 0
    /\ nReconnect = 0
    /\ _connected = TRUE
    /\ waits = <<>>
    /\ inOnClose = 0
    /\ env \in [dataKind : {"Buffer", "Blob"}, onMessage : BOOLEAN,
                onReconnect : {FALSE}]
    /\ QueryIdle

MsgNext ==
    \/ \E i \in DOMAIN socks : OnMessage(i)
    \/ \E h \in pending : HandleMsgResume(h)

SpecMsg == MsgInit /\ [][MsgNext]_vars

----------------------------------------------------------------------------
(* Specification of the enum conversions: the input is any value of a      *)
(* range around the schema's numbers, the action applies the conversion.   *)

EnumSpan == 10   \* how far beyond 0..3 the converted values range

EnumValues == (0 - EnumSpan)..(3 + EnumSpan)

EnumInit ==
    /\ IxIdle
    /\ WsIdle
    /\ env = [dataKind |-> "Buffer", onMessage |-> TRUE, onReconnect |-> FALSE]
    /\ call \in [op : {"convert"},
                 enum : {"Network", "UtxoStateVariant", "SlpTxType", "SlpTokenType"},
                 value : EnumValues]
    /\ outcome = [kind |-> "none"]

\* a conversion applied to call.value
Convert(enum, result) ==
    /\ call.op = "convert"
    /\ call.enum = enum
    /\ outcome = [kind |-> "none"]
    /\ outcome' = result
    /\ UNCHANGED <<call, wsVars, ixVars>>

\* convertToSlpMeta applied to a SlpMeta, as a value or a thrown Error
SlpMetaResult(slpMeta) ==
    IF convertToSlpTokenType(slpMeta.tokenType).kind = "throw"
    THEN convertToSlpTokenType(slpMeta.tokenType)
    ELSE IF convertToSlpTxType(slpMeta.txType).kind = "throw"
    THEN convertToSlpTxType(slpMeta.txType)
    ELSE Return(convertToSlpMeta(slpMeta))

EnumNext ==
    \/ Convert("Network", convertToNetwork(call.value))
    \/ Convert("UtxoStateVariant", convertToUtxoStateVariant(call.value))
    \/ Convert("SlpTxType",
               SlpMetaResult([tokenType |-> SlpTokenType.FUNGIBLE, txType |-> call.value,
                              tokenId |-> TxidA, groupTokenId |-> <<>>]))
    \/ Convert("SlpTokenType",
               SlpMetaResult([tokenType |-> call.value, txType |-> SlpTxType.GENESIS,
                              tokenId |-> TxidA, groupTokenId |-> <<>>]))

SpecEnum == EnumInit /\ [][EnumNext]_vars

----------------------------------------------------------------------------
(* The Tx and BlockInfo codecs on their own: Init draws a message, one      *)
(* action encodes it, the next decodes the encoded message.                 *)

MaxItems == 2   \* most inputs of a drawn Tx

\* every sequence over S of at most n elements
SeqsUpTo(S, n) == UNION {[1..k -> S] : k \in 0..n}

\* a TxInput of defaults, one whose members are all set, and one whose
\* members of message type are present but hold defaults
TxInputValues ==
    {[prevOut |-> Undefined, inputScript |-> <<>>, outputScript |-> <<>>,
      value |-> 0, sequenceNo |-> 0, slpBurn |-> Undefined,
      slpToken |-> Undefined],
     [prevOut |-> <<[txid |-> TxidA, outIdx |-> 1]>>, inputScript |-> <<71>>,
      outputScript |-> ScriptBytes, value |-> 50, sequenceNo |-> 9,
      slpBurn |-> <<[token |-> <<[amount |-> 3, isMintBaton |-> TRUE]>>,
                     tokenId |-> TxidB]>>,
      slpToken |-> <<[amount |-> 7, isMintBaton |-> FALSE]>>],
     [prevOut |-> <<[txid |-> <<>>, outIdx |-> 0]>>, inputScript |-> <<>>,
      outputScript |-> <<>>, value |-> 0, sequenceNo |-> 0,
      slpBurn |-> <<[token |-> Undefined, tokenId |-> <<>>]>>,
      slpToken |-> <<[amount |-> 0, isMintBaton |-> FALSE]>>]}

TxOutputValues ==
    {[value |-> 0, outputScript |-> <<>>, slpToken |-> Undefined,
      spentBy |-> Undefined],
     [value |-> 49, outputScript |-> ScriptBytes,
      slpToken |-> <<[amount |-> 0, isMintBaton |-> TRUE]>>,
      spentBy |-> <<[txid |-> TxidB, outIdx |-> 0]>>]}

SlpTxDataValues ==
    {[slpMeta |-> Undefined, genesisInfo |-> Undefined],
     [slpMeta |-> <<[tokenType |-> SlpTokenType.NFT1_CHILD,
                     txType |-> SlpTxType.SEND, tokenId |-> TxidB,
                     groupTokenId |-> TxidA]>>,
      genesisInfo |-> <<[tokenTicker |-> <<84>>, tokenName |-> <<>>,
                         tokenDocumentUrl |-> <<104, 116>>,
                         tokenDocumentHash |-> <<>>, decimals |-> 8]>>]}

BlockMetadataValues == {[height |-> 0, hash |-> <<>>, timestamp |-> 0], BlockMeta1}

Optional(S) == {Undefined} \cup {<<v>> : v \in S}

TxValues ==
    [txid : {<<>>, TxidA},
     version : {0, 2},
     inputs : SeqsUpTo(TxInputValues, MaxItems),
     outputs : SeqsUpTo(TxOutputValues, 2),
     lockTime : {0, 7},
     slpTxData : Optional(SlpTxDataValues),
     slpErrorMsg : {"", "bad"},
     block : Optional(BlockMetadataValues),
     timeFirstSeen : {0, 5},
     network : {Network.BCH, Network.XPI}]

BlockInfoValues ==
    [hash : {<<>>, BlockHash1},
     prevHash : {<<>>, PrevHash1},
     height : {0, 1},
     nBits : {0, 486604799},
     timestamp : {0, 1600000000},
     blockSize : {0, 300},
     numTxs : {0, 2},
     numInputs : {0, 3},
     numOutputs : {0, 4},
     sumInputSats : {0, 50},
     sumCoinbaseOutputSats : {0, 75},
     sumNormalOutputSats : {0, 49},
     sumBurnedSats : {0, 1}]

CodecInit ==
    /\ IxIdle
    /\ WsIdle
    /\ env = [dataKind |-> "Buffer", onMessage |-> TRUE, onReconnect |-> FALSE]
    /\ \/ call \in [op : {"codec"}, type : {"Tx"}, message : TxValues,
                    wire : {Undefined}]
       \/ call \in [op : {"codec"}, type : {"BlockInfo"},
                    message : BlockInfoValues, wire : {Undefined}]
    /\ outcome = [kind |-> "none"]

\* Tx.encode(call.message).finish()
EncodeTx ==
    /\ call.op = "codec" /\ call.type = "Tx" /\ call.wire = Undefined
    /\ call' = [call EXCEPT !.wire = <<TxEncode(call.message)>>]
    /\ UNCHANGED <<outcome, wsVars, ixVars>>

\* Tx.decode of the encoded message
DecodeTx ==
    /\ call.op = "codec" /\ call.type = "Tx" /\ call.wire # Undefined
    /\ outcome = [kind |-> "none"]
    /\ outcome' = Return(TxDecode(call.wire[1]))
    /\ UNCHANGED <<call, wsVars, ixVars>>

\* BlockInfo.encode(call.message).finish()
EncodeBlockInfo ==
    /\ call.op = "codec" /\ call.type = "BlockInfo" /\ call.wire = Undefined
    /\ call' = [call EXCEPT !.wire = <<BlockInfoEncode(call.message)>>]
    /\ UNCHANGED <<outcome, wsVars, ixVars>>

\* BlockInfo.decode of the encoded message
DecodeBlockInfo ==
    /\ call.op = "codec" /\ call.type = "BlockInfo" /\ call.wire # Undefined
    /\ outcome = [kind |-> "none"]
    /\ outcome' = Return(BlockInfoDecode(call.wire[1]))
    /\ UNCHANGED <<call, wsVars, ixVars>>

CodecNext ==
    \/ EncodeTx
    \/ DecodeTx
    \/ EncodeBlockInfo
    \/ DecodeBlockInfo

SpecCodec == CodecInit /\ [][CodecNext]_vars

----------------------------------------------------------------------------
(* The indexer, from its specification: what the node can announce, the    *)
(* Chain State Store (section 4.1) as operators on a store value, and the   *)
(* Chain Synchronizer (section 4.2) as actions.                             *)

OtherScriptBytes == <<169, 20>>

\* the script fingerprint of an output script
ScriptOf(outputScript) ==
    IF outputScript = ScriptBytes THEN ChainScript
    ELSE CHOOSE p \in Pairs : p # ChainScript

\* the transactions the node can announce: the coinbase of the genesis
\* block, Tx1 spending its first output, Tx2 spending the first output of
\* Tx1, and the coinbase of every later block
Tx0 == [txid |-> <<16, 0>>, isCoinbase |-> TRUE, inputs |-> <<>>,
        outputs |-> <<[value |-> 30, outputScript |-> ScriptBytes],
                      [value |-> 20, outputScript |-> ScriptBytes]>>]

Tx1 == [txid |-> <<16, 1>>, isCoinbase |-> FALSE,
        inputs |-> <<[txid |-> <<16, 0>>, outIdx |-> 0]>>,
        outputs |-> <<[value |-> 20, outputScript |-> ScriptBytes],
                      [value |-> 9, outputScript |-> OtherScriptBytes]>>]

Tx2 == [txid |-> <<16, 2>>, isCoinbase |-> FALSE,
        inputs |-> <<[txid |-> <<16, 1>>, outIdx |-> 0]>>,
        outputs |-> <<[value |-> 19, outputScript |-> ScriptBytes]>>]

Coinbase(n) == [txid |-> <<12, n>>, isCoinbase |-> TRUE, inputs |-> <<>>,
                outputs |-> <<[value |-> 50, outputScript |-> OtherScriptBytes]>>]

ZeroHash == <<0, 0>>

\* the blocks the node can connect: a branch A1, A2 and a branch B1, B2 on
\* the genesis block, each carrying its coinbase first
GenesisBlock == [hash |-> <<71, 0>>, prevHash |-> ZeroHash, height |-> 0,
                 txs |-> <<Tx0.txid>>]
BlockA1 == [hash |-> <<161, 1>>, prevHash |-> <<71, 0>>, height |-> 1,
            txs |-> <<Coinbase(1).txid, Tx1.txid>>]
BlockA2 == [hash |-> <<161, 2>>, prevHash |-> <<161, 1>>, height |-> 2,
            txs |-> <<Coinbase(2).txid, Tx2.txid>>]
BlockB1 == [hash |-> <<177, 1>>, prevHash |-> <<71, 0>>, height |-> 1,
            txs |-> <<Coinbase(3).txid, Tx1.txid>>]
BlockB2 == [hash |-> <<177, 2>>, prevHash |-> <<177, 1>>, height |-> 2,
            txs |-> <<Coinbase(4).txid>>]

NodeBlocks == {BlockA1, BlockA2, BlockB1, BlockB2}
NodeTxs == {Tx0, Tx1, Tx2} \cup {Coinbase(n) : n \in 1..4}

TxOf(txid) == CHOOSE t \in NodeTxs : t.txid = txid

OutputAt(outpoint) == TxOf(outpoint.txid).outputs[outpoint.outIdx + 1]

OutPointsOf(t) == {[txid |-> t.txid, outIdx |-> i - 1] : i \in DOMAIN t.outputs}

\* the scripts a transaction touches: those of its outputs and of the
\* outputs its inputs spend
Touched(t) ==
    {ScriptOf(t.outputs[i].outputScript) : i \in DOMAIN t.outputs}
        \cup {ScriptOf(OutputAt(t.inputs[i]).outputScript) : i \in DOMAIN t.inputs}

\* Chain State Store: block headers with their transactions, the known
\* transactions in the order they were first seen, the mempool, the UTXO
\* set, the spentBy back-references and the script -> txid lists
EmptyStore ==
    [blocks |-> <<>>, arrival |-> <<>>, mempool |-> {}, utxos |-> {},
     spentBy |-> {}, history |-> [s \in Pairs |-> <<>>]]

Tip(st) == IF st.blocks = <<>> THEN ZeroHash ELSE st.blocks[Len(st.blocks)].hash

ConfirmedTxs(st) == UNION {Range(st.blocks[i].txs) : i \in DOMAIN st.blocks}

Without(s, x) == SelectSeq(s, LAMBDA y : y # x)

\* a transaction enters the index unconfirmed: its inputs leave the UTXO set
\* and get their spentBy, its outputs join the UTXO set, and it is appended
\* to the list of every script it touches
acceptTx(st, t) ==
    [st EXCEPT
        !.arrival = Append(@, t.txid),
        !.mempool = @ \cup {t.txid},
        !.utxos = (@ \ Range(t.inputs)) \cup OutPointsOf(t),
        !.spentBy = @ \cup {[out |-> t.inputs[i],
                             by |-> [txid |-> t.txid, outIdx |-> i - 1]] :
                                i \in DOMAIN t.inputs},
        !.history = [s \in Pairs |-> IF s \in Touched(t)
                                     THEN Append(@[s], t.txid) ELSE @[s]]]

\* the inverse: the transaction leaves the index
discardTx(st, t) ==
    [st EXCEPT
        !.arrival = Without(@, t.txid),
        !.mempool = @ \ {t.txid},
        !.utxos = (@ \ OutPointsOf(t)) \cup Range(t.inputs),
        !.spentBy = {r \in @ : r.by.txid # t.txid},
        !.history = [s \in Pairs |-> Without(@[s], t.txid)]]

\* confirmTx leaving the transaction where it is in the lists
confirmTxMut(st, t) ==
    [st EXCEPT
        !.mempool = @ \ {t.txid},
        !.blocks[Len(st.blocks)].txs = Append(@, t.txid)]

\* a known unconfirmed transaction becomes the last transaction of the tip:
\* in every list it moves behind the confirmed entries
confirmTx(st, t) ==
    LET conf == ConfirmedTxs(st)
        move(h) == SelectSeq(h, LAMBDA x : x \in conf) \o <<t.txid>>
                       \o SelectSeq(h, LAMBDA x : x \notin conf /\ x # t.txid)
    IN [st EXCEPT
           !.mempool = @ \ {t.txid},
           !.blocks[Len(st.blocks)].txs = Append(@, t.txid),
           !.history = [s \in Pairs |-> IF s \in Touched(t) THEN move(@[s])
                                        ELSE @[s]]]

\* a transaction of the tip goes back to mempool status: in every list it
\* moves among the unconfirmed entries, which are ordered by arrival
demoteTx(st, t) ==
    LET conf == ConfirmedTxs(st) \ {t.txid}
        move(h) == SelectSeq(h, LAMBDA x : x \in conf)
                       \o SelectSeq(st.arrival,
                                    LAMBDA x : x \in Range(h) /\ x \notin conf)
    IN [st EXCEPT
           !.mempool = @ \cup {t.txid},
           !.blocks[Len(st.blocks)].txs = Without(@, t.txid),
           !.history = [s \in Pairs |-> IF s \in Touched(t) THEN move(@[s])
                                        ELSE @[s]]]

\* whether the inputs of t resolve against the UTXO set
Resolves(st, t) == Range(t.inputs) \subseteq st.utxos

ConflictError == [kind |-> "throw", error |-> "ConflictError"]

\* putBlock applied to one transaction of the block
putTx(st, t) ==
    IF t.txid \in st.mempool THEN confirmTx(st, t)
    ELSE confirmTx(acceptTx(st, t), t)

\* the header of a block with no transaction inserted yet
Header(b) == [b EXCEPT !.txs = <<>>]

\* putBlock
putBlock(st, b) ==
    IF b.prevHash # Tip(st) THEN ConflictError
    ELSE Return(FoldLeft(LAMBDA acc, txid : putTx(acc, TxOf(txid)),
                         [st EXCEPT !.blocks = Append(@, Header(b))], b.txs))

\* removeTx sending the coinbase to the mempool as well
removeTxMut(st, t) == demoteTx(st, t)

\* removeBlock applied to one transaction of the block: it goes back to the
\* mempool, or is discarded when it cannot be a mempool transaction
removeTx(st, t) ==
    IF t.isCoinbase
    THEN discardTx([st EXCEPT !.blocks[Len(st.blocks)].txs = Without(@, t.txid)], t)
    ELSE demoteTx(st, t)

\* removeBlock: the transactions of the tip in reverse order, then the header
removeBlock(st) ==
    LET emptied == FoldLeft(LAMBDA acc, txid : removeTx(acc, TxOf(txid)), st,
                            Reverse(st.blocks[Len(st.blocks)].txs))
    IN [emptied EXCEPT !.blocks = SubSeq(@, 1, Len(@) - 1)]

\* the store once the genesis block is connected
GenesisStore == putBlock(EmptyStore, GenesisBlock).value

----------------------------------------------------------------------------
(* The node and its transport: the node keeps a chain and a mempool and     *)
(* announces what it does, in the order it does it, on a bounded queue.     *)

MaxNodeEvents == 3   \* events the node announces per behaviour
MaxQueue == 2        \* capacity of the queue between transport and Synchronizer
MaxLookback == 1     \* blocks the Synchronizer disconnects looking for an ancestor
ChanCapacity == 2    \* notifications a channel holds before it is dropped

Channels == {1, 2}

Event(type, arg) == [type |-> type, arg |-> arg]

NodeConfirmed == UNION {Range(node.chain[i].txs) : i \in DOMAIN node.chain}

NodeTip == node.chain[Len(node.chain)]

\* whether the node may hold t: its inputs spend outputs of transactions in
\* the given set
Spendable(t, txids) == \A i \in DOMAIN t.inputs : t.inputs[i].txid \in txids

Announce(e) ==
    /\ node.sent < node.budget
    /\ Len(queue) < MaxQueue
    /\ queue' = Append(queue, e)

\* the node accepts a transaction into its mempool
NodeAccept(t) ==
    /\ ~t.isCoinbase
    /\ t.txid \notin NodeConfirmed \cup node.mempool
    /\ Spendable(t, NodeConfirmed \cup node.mempool)
    /\ Announce(Event("MempoolTxAdded", [txid |-> t.txid]))
    /\ node' = [node EXCEPT !.mempool = @ \cup {t.txid}, !.sent = @ + 1]
    /\ UNCHANGED <<store, sync, chans, committed, reads, call, outcome, wsVars>>

\* the node evicts a mempool transaction nothing in the mempool spends
NodeEvict(txid) ==
    /\ txid \in node.mempool
    /\ \A other \in node.mempool :
           \A i \in DOMAIN TxOf(other).inputs : TxOf(other).inputs[i].txid # txid
    /\ Announce(Event("MempoolTxRemoved", [txid |-> txid]))
    /\ node' = [node EXCEPT !.mempool = @ \ {txid}, !.sent = @ + 1]
    /\ UNCHANGED <<store, sync, chans, committed, reads, call, outcome, wsVars>>

\* the chain and mempool of the node once b stands on the first k blocks
NodeWith(k, b) ==
    LET kept == SubSeq(node.chain, 1, k)
        left == UNION {Range(node.chain[i].txs) : i \in (k + 1)..Len(node.chain)}
    IN [node EXCEPT
           !.chain = Append(kept, b),
           !.mempool = {x \in (@ \cup left) \ Range(b.txs) : ~TxOf(x).isCoinbase},
           !.sent = @ + 1]

\* whether b can stand on the first k blocks of the node's chain
Extends(k, b) ==
    /\ k \in DOMAIN node.chain
    /\ b.prevHash = node.chain[k].hash
    /\ LET below == UNION {Range(node.chain[i].txs) : i \in 1..k}
       IN \A j \in DOMAIN b.txs :
             /\ b.txs[j] \notin below
             /\ Spendable(TxOf(b.txs[j]),
                          below \cup {b.txs[n] : n \in 1..(j - 1)})

\* the node connects a block on its tip
NodeConnect(b) ==
    /\ Extends(Len(node.chain), b)
    /\ Announce(Event("BlockConnected", b))
    /\ node' = NodeWith(Len(node.chain), b)
    /\ UNCHANGED <<store, sync, chans, committed, reads, call, outcome, wsVars>>

\* the node disconnects its tip
NodeDisconnect ==
    /\ Len(node.chain) > 1
    /\ Announce(Event("BlockDisconnected", NodeTip))
    /\ node' = [node EXCEPT
                   !.chain = SubSeq(@, 1, Len(@) - 1),
                   !.mempool = @ \cup {x \in Range(NodeTip.txs) : ~TxOf(x).isCoinbase},
                   !.sent = @ + 1]
    /\ UNCHANGED <<store, sync, chans, committed, reads, call, outcome, wsVars>>

\* the node reorganizes to a block of another branch and announces only the
\* block it connects
NodeReorg(k, b) ==
    /\ k < Len(node.chain)
    /\ \A i \in DOMAIN node.chain : node.chain[i].hash # b.hash
    /\ Extends(k, b)
    /\ Announce(Event("BlockConnected", b))
    /\ node' = NodeWith(k, b)
    /\ UNCHANGED <<store, sync, chans, committed, reads, call, outcome, wsVars>>

\* the transport replays the connection of the node's tip
NodeReplay ==
    /\ Len(node.chain) > 1
    /\ Announce(Event("BlockConnected", NodeTip))
    /\ node' = [node EXCEPT !.sent = @ + 1]
    /\ UNCHANGED <<store, sync, chans, committed, reads, call, outcome, wsVars>>

----------------------------------------------------------------------------
(* Subscription Registry fan-out (sections 4.5 and 5): one mailbox per      *)
(* channel; a channel whose mailbox is full is dropped.                     *)

Notification(type, txid) == [type |-> type, txid |-> txid]

\* one notification handed to one channel
Notify(chan, n) ==
    IF chan.closed \/ chan.subs \cap Touched(TxOf(n.txid)) = {} THEN chan
    ELSE IF Len(chan.mailbox) >= ChanCapacity
    THEN [chan EXCEPT !.closed = TRUE, !.mailbox = <<>>]
    ELSE [chan EXCEPT !.mailbox = Append(@, n)]

\* the notifications of a commit handed to every channel, in commit order
Fanout(cs, notes) ==
    [c \in Channels |-> FoldLeft(LAMBDA chan, n : Notify(chan, n), cs[c], notes)]

\* a subscriber takes the next notification out of its mailbox
ChanRead(c) ==
    /\ ~chans[c].closed
    /\ chans[c].mailbox # <<>>
    /\ chans' = [chans EXCEPT ![c].mailbox = Tail(@),
                              ![c].received = Append(@, Head(chans[c].mailbox))]
    /\ UNCHANGED <<node, queue, store, sync, committed, reads, call, outcome, wsVars>>

----------------------------------------------------------------------------
(* Chain Synchronizer (section 4.2): one event at a time, taken from the    *)
(* queue; a block is applied to a batch, transaction by transaction, and    *)
(* the batch is committed to the store in one write.                        *)

Idle == [event |-> Undefined, batch |-> Undefined, left |-> <<>>,
         notes |-> <<>>, removed |-> 0]

Working(type) ==
    /\ sync.work.event # Undefined
    /\ sync.work.event[1].type = type
    /\ sync.work.batch = Undefined

\* the event in hand is done, with the store it leaves and the notifications
\* its last write emits
Done(result, st, notes) ==
    [sync EXCEPT !.work = Idle,
                 !.emitted = @ \o notes,
                 !.log = Append(@, [event |-> sync.work.event[1], result |-> result,
                                    store |-> st,
                                    emitted |-> Len(sync.emitted) + Len(notes)])]

\* Commit waiting for room in every mailbox instead of dropping a channel
CommitMut(st, notes) ==
    /\ \A c \in Channels : Fanout(chans, notes)[c].closed = chans[c].closed
    /\ store' = st
    /\ committed' = committed \cup {st}
    /\ chans' = Fanout(chans, notes)

\* a write of the whole store, with its notifications
Commit(st, notes) ==
    /\ store' = st
    /\ committed' = committed \cup {st}
    /\ chans' = Fanout(chans, notes)

\* the Synchronizer takes the next event
SyncTake ==
    /\ ~sync.halted
    /\ sync.work.event = Undefined
    /\ queue # <<>>
    /\ sync' = [sync EXCEPT !.work = [Idle EXCEPT !.event = <<Head(queue)>>]]
    /\ queue' = Tail(queue)
    /\ UNCHANGED <<node, store, chans, committed, reads, call, outcome, wsVars>>

\* AlreadyApplied recognizing no block
AlreadyAppliedMut(b) == FALSE

\* whether the block is among the applied blocks
AlreadyApplied(b) == \E i \in DOMAIN store.blocks : store.blocks[i].hash = b.hash

\* BlockConnected handing the block to putBlock whatever the tip is
BlockConnectedMut ==
    /\ Working("BlockConnected")
    /\ LET b == sync.work.event[1].arg
       IN IF AlreadyApplied(b)
          THEN sync' = Done("already applied", store, <<>>)
          ELSE IF b.prevHash = Tip(store)
          THEN sync' = [sync EXCEPT
                           !.work.batch = <<[store EXCEPT !.blocks = Append(@, Header(b))]>>,
                           !.work.left = b.txs]
          ELSE sync' = Done(putBlock(store, b).error, store, <<>>)
    /\ UNCHANGED <<node, queue, store, chans, committed, reads, call, outcome, wsVars>>

\* BlockConnected: a block already applied is rejected; a block on the tip
\* opens a putBlock batch; otherwise the tip is disconnected, unless the
\* lookback is used up
BlockConnected ==
    /\ Working("BlockConnected")
    /\ LET b == sync.work.event[1].arg
       IN IF AlreadyApplied(b)
          THEN sync' = Done("already applied", store, <<>>)
          ELSE IF b.prevHash = Tip(store)
          THEN sync' = [sync EXCEPT
                           !.work.batch = <<[store EXCEPT !.blocks = Append(@, Header(b))]>>,
                           !.work.left = b.txs]
          ELSE IF sync.work.removed >= MaxLookback \/ Len(store.blocks) = 1
          THEN sync' = [Done("fault", store, <<>>) EXCEPT !.halted = TRUE]
          ELSE sync' = [sync EXCEPT
                           !.work.batch = <<store>>,
                           !.work.left = Reverse(store.blocks[Len(store.blocks)].txs)]
    /\ UNCHANGED <<node, queue, store, chans, committed, reads, call, outcome, wsVars>>

\* BlockDisconnected: opens a removeBlock batch for the tip
BlockDisconnected ==
    /\ Working("BlockDisconnected")
    /\ IF sync.work.event[1].arg.hash = Tip(store) /\ Len(store.blocks) > 1
       THEN sync' = [sync EXCEPT
                        !.work.batch = <<store>>,
                        !.work.left = Reverse(store.blocks[Len(store.blocks)].txs)]
       ELSE sync' = Done("not the tip", store, <<>>)
    /\ UNCHANGED <<node, queue, store, chans, committed, reads, call, outcome, wsVars>>

\* whether the open batch is a putBlock (the header of the block is in it)
Putting ==
    /\ sync.work.event[1].type = "BlockConnected"
    /\ Tip(sync.work.batch[1]) = sync.work.event[1].arg.hash

\* the next transaction of the block goes into, or out of, the batch
ApplyTx ==
    /\ sync.work.batch # Undefined
    /\ sync.work.left # <<>>
    /\ LET t == TxOf(Head(sync.work.left))
       IN sync' = [sync EXCEPT
                      !.work.batch = <<IF Putting THEN putTx(@[1], t)
                                       ELSE removeTx(@[1], t)>>,
                      !.work.left = Tail(@),
                      !.work.notes = Append(@, Notification(
                          IF Putting THEN "Confirmed" ELSE "Reorg", t.txid))]
    /\ UNCHANGED <<node, queue, store, chans, committed, reads, call, outcome, wsVars>>

\* the batch is written: a putBlock ends the event; a removeBlock ends a
\* BlockDisconnected, and lets a BlockConnected look at the new tip
CommitBatch ==
    /\ sync.work.batch # Undefined
    /\ sync.work.left = <<>>
    /\ IF Putting
       THEN /\ Commit(sync.work.batch[1], sync.work.notes)
            /\ sync' = Done("connected", sync.work.batch[1], sync.work.notes)
       ELSE /\ Commit([sync.work.batch[1] EXCEPT !.blocks = SubSeq(@, 1, Len(@) - 1)],
                      sync.work.notes)
            /\ sync' = IF sync.work.event[1].type = "BlockDisconnected"
                       THEN Done("disconnected",
                                 [sync.work.batch[1] EXCEPT
                                     !.blocks = SubSeq(@, 1, Len(@) - 1)],
                                 sync.work.notes)
                       ELSE [sync EXCEPT !.emitted = @ \o sync.work.notes,
                                         !.work.batch = Undefined,
                                         !.work.notes = <<>>,
                                         !.work.removed = @ + 1]
    /\ UNCHANGED <<node, queue, reads, call, outcome, wsVars>>

\* MempoolTxAdded: rejected unless the inputs resolve
MempoolTxAdded ==
    /\ Working("MempoolTxAdded")
    /\ LET t == TxOf(sync.work.event[1].arg.txid)
       IN IF Resolves(store, t) /\ t.txid \notin Range(store.arrival)
          THEN /\ Commit(acceptTx(store, t), <<Notification("AddedToMempool", t.txid)>>)
               /\ sync' = Done("added", acceptTx(store, t),
                                <<Notification("AddedToMempool", t.txid)>>)
          ELSE /\ sync' = Done("RejectedError", store, <<>>)
               /\ UNCHANGED <<store, chans, committed>>
    /\ UNCHANGED <<node, queue, reads, call, outcome, wsVars>>

\* MempoolTxRemoved: evicts a mempool transaction, and nothing else
MempoolTxRemoved ==
    /\ Working("MempoolTxRemoved")
    /\ LET t == TxOf(sync.work.event[1].arg.txid)
       IN IF t.txid \in store.mempool /\ OutPointsOf(t) \subseteq store.utxos
          THEN /\ Commit(discardTx(store, t),
                         <<Notification("RemovedFromMempool", t.txid)>>)
               /\ sync' = Done("removed", discardTx(store, t),
                                <<Notification("RemovedFromMempool", t.txid)>>)
          ELSE /\ sync' = Done("kept", store, <<>>)
               /\ UNCHANGED <<store, chans, committed>>
    /\ UNCHANGED <<node, queue, reads, call, outcome, wsVars>>

----------------------------------------------------------------------------
(* Specification of the indexer: the node announces, the Synchronizer       *)
(* applies, subscribers read their mailboxes.                               *)

\* the indexer on the genesis block, the node allowed so many events
IndexStart(budget) ==
    /\ WsIdle
    /\ env = [dataKind |-> "Buffer", onMessage |-> TRUE, onReconnect |-> FALSE]
    /\ QueryIdle
    /\ reads = <<>>
    /\ node = [chain |-> <<GenesisBlock>>, mempool |-> {}, sent |-> 0,
               budget |-> budget]
    /\ queue = <<>>
    /\ store = GenesisStore
    /\ sync = [work |-> Idle, halted |-> FALSE, log |-> <<>>, emitted |-> <<>>]
    /\ chans = [c \in Channels |->
                   [subs |-> IF c = 1 THEN {ChainScript} ELSE Pairs,
                    mailbox |-> <<>>, received |-> <<>>, closed |-> FALSE]]
    /\ committed = {GenesisStore}

IndexInit == IndexStart(MaxNodeEvents)

\* a step of the Synchronizer on the event in hand
SyncStep ==
    \/ BlockConnected
    \/ BlockDisconnected
    \/ ApplyTx
    \/ CommitBatch
    \/ MempoolTxAdded
    \/ MempoolTxRemoved

IndexNext ==
    \/ \E t \in NodeTxs : NodeAccept(t)
    \/ \E t \in NodeTxs : NodeEvict(t.txid)
    \/ \E b \in NodeBlocks : NodeConnect(b)
    \/ NodeDisconnect
    \/ \E k \in 1..2, b \in NodeBlocks : NodeReorg(k, b)
    \/ NodeReplay
    \/ SyncTake
    \/ BlockConnected
    \/ BlockDisconnected
    \/ ApplyTx
    \/ CommitBatch
    \/ MempoolTxAdded
    \/ MempoolTxRemoved
    \/ \E c \in Channels : ChanRead(c)

SpecIndex == IndexInit /\ [][IndexNext]_vars

\* the Synchronizer is a running loop: it takes a queued event when it is
\* idle and goes on with the event in hand; the node and the subscribers
\* owe nothing
SpecIndexFair == SpecIndex /\ WF_vars(SyncTake) /\ WF_vars(SyncStep)

----------------------------------------------------------------------------
(* Specification of connect / disconnect round trips: the node accepts      *)
(* transactions, connects blocks on its tip and disconnects its tip, each   *)
(* announced; long enough for two blocks to be connected over a filled      *)
(* mempool and disconnected again.                                          *)

MaxChainEvents == 6   \* events the node announces per behaviour

RoundTripInit == IndexStart(MaxChainEvents)

RoundTripNext ==
    \/ \E t \in NodeTxs : NodeAccept(t)
    \/ \E b \in NodeBlocks : NodeConnect(b)
    \/ NodeDisconnect
    \/ SyncTake
    \/ BlockConnected
    \/ BlockDisconnected
    \/ ApplyTx
    \/ CommitBatch
    \/ MempoolTxAdded

SpecRoundTrip == RoundTripInit /\ [][RoundTripNext]_vars

----------------------------------------------------------------------------
(* Query Service over the store (sections 4.1 and 4.4), and a client that   *)
(* walks the pages of a script's history with ScriptEndpoint.history while  *)
(* the indexer ingests.                                                     *)

MaxReads == 3   \* history calls of a walk

\* the block a transaction is confirmed in, if any
BlockOf(st, txid) ==
    IF txid \in ConfirmedTxs(st)
    THEN <<CHOOSE b \in Range(st.blocks) : txid \in Range(b.txs)>>
    ELSE Undefined

\* the spentBy back-reference of an output, if any
SpentBy(st, outpoint) ==
    IF \E r \in st.spentBy : r.out = outpoint
    THEN <<(CHOOSE r \in st.spentBy : r.out = outpoint).by>>
    ELSE Undefined

\* 1-based rank of a transaction in the order of arrival
ArrivalOf(st, txid) == CHOOSE i \in DOMAIN st.arrival : st.arrival[i] = txid

\* getTx: the Tx entity of section 3 for a known transaction
getTx(st, txid) ==
    LET t == TxOf(txid)
    IN [txid |-> txid, version |-> 1,
        inputs |-> [i \in DOMAIN t.inputs |->
                       [prevOut |-> <<t.inputs[i]>>, inputScript |-> <<>>,
                        outputScript |-> OutputAt(t.inputs[i]).outputScript,
                        value |-> OutputAt(t.inputs[i]).value, sequenceNo |-> 0,
                        slpBurn |-> Undefined, slpToken |-> Undefined]],
        outputs |-> [i \in DOMAIN t.outputs |->
                        [value |-> t.outputs[i].value,
                         outputScript |-> t.outputs[i].outputScript,
                         slpToken |-> Undefined,
                         spentBy |-> SpentBy(st, [txid |-> txid, outIdx |-> i - 1])]],
        lockTime |-> 0, slpTxData |-> Undefined, slpErrorMsg |-> "",
        block |-> IF BlockOf(st, txid) = Undefined THEN Undefined
                  ELSE <<[height |-> BlockOf(st, txid)[1].height,
                          hash |-> BlockOf(st, txid)[1].hash, timestamp |-> 0]>>,
        timeFirstSeen |-> ArrivalOf(st, txid), network |-> Network.XEC]

\* the history entries of a script, in the order of its list
Entries(st, script) == [i \in DOMAIN st.history[script] |-> getTx(st, st.history[script][i])]

\* getHistoryPage
getHistoryPage(st, script, page, pageSize) ==
    IF pageSize = 0 \/ pageSize > MaxPageSize THEN InvalidArgument
    ELSE Ok(TxHistoryPageEncode(HistoryPage(Entries(st, script), page, pageSize)))

\* the value of a parameter of a query string, if the string names it
QueryParam(query, names) ==
    IF \E i \in DOMAIN query : i % 2 = 1 /\ query[i] \in names
    THEN <<query[(CHOOSE i \in DOMAIN query : i % 2 = 1 /\ query[i] \in names) + 1]>>
    ELSE Undefined

\* GET /script/:type/:payload/history, with the optional page and page_size
ServeScriptHistory(st, path) ==
    LET page == QueryParam(path[6], {"?page=", "&page="})
        pageSize == QueryParam(path[6], {"?page_size=", "&page_size="})
    IN getHistoryPage(st, <<path[2], path[4]>>,
                      IF page = Undefined THEN 0 ELSE page[1],
                      IF pageSize = Undefined THEN DefaultPageSize ELSE pageSize[1])

\* what a query reads while a batch is open: the store as it will be
SnapshotMut == IF sync.work.batch # Undefined THEN sync.work.batch[1] ELSE store

\* what a query reads: the store as last committed
Snapshot == store

\* whether a block is half applied in the open batch, at least one of its
\* transactions taken and one to come, the entries of the script in the
\* batch other than those in the store
HalfApplied(script) ==
    /\ sync.work.batch # Undefined
    /\ sync.work.left # <<>>
    /\ Entries(sync.work.batch[1], script) # Entries(store, script)

PageSizes == {Undefined} \cup {<<k>> : k \in 0..(MaxPageSize + 1)}

\* the next history call of the walk, up to `await _get(...)`: page 0
\* first, then the following pages as long as the last call returned a page
\* count above them.  The request is out.
ReadPage(script, pageSize) ==
    /\ Len(reads) < MaxReads
    /\ call.op = "none" \/ outcome.kind # "none"
    /\ reads # <<>> => /\ reads[1].script = script
                       /\ reads[1].pageSize = pageSize
                       /\ outcome.kind = "return"
                       /\ Len(reads) < outcome.value.numPages
    /\ call' = [op |-> "history",
                path |-> historyPath(script, <<Len(reads)>>, pageSize),
                page |-> <<Len(reads)>>, pageSize |-> pageSize]
    /\ outcome' = [kind |-> "none"]
    /\ UNCHANGED <<reads, node, queue, store, sync, chans, committed, wsVars>>

\* the indexer answers the request from what it holds and the history call
\* resumes with the response
ReadPageResume ==
    LET script == <<call.path[2], call.path[4]>>
        response == ServeScriptHistory(Snapshot, call.path)
    IN /\ Awaiting("history")
       /\ outcome' = historyResult(response, call.path)
       /\ reads' = Append(reads, [script |-> script, page |-> call.page[1],
                                  pageSize |-> call.pageSize, outcome |-> outcome',
                                  response |-> response,
                                  entries |-> Entries(store, script),
                                  halfway |-> HalfApplied(script)])
       /\ UNCHANGED <<call, node, queue, store, sync, chans, committed, wsVars>>

PagesNext ==
    \/ \E t \in NodeTxs : NodeAccept(t)
    \/ \E t \in NodeTxs : NodeEvict(t.txid)
    \/ \E b \in NodeBlocks : NodeConnect(b)
    \/ NodeDisconnect
    \/ \E k \in 1..2, b \in NodeBlocks : NodeReorg(k, b)
    \/ NodeReplay
    \/ SyncTake
    \/ BlockConnected
    \/ BlockDisconnected
    \/ ApplyTx
    \/ CommitBatch
    \/ MempoolTxAdded
    \/ MempoolTxRemoved
    \/ \E s \in Pairs, k \in PageSizes : ReadPage(s, k)
    \/ ReadPageResume

SpecPages == IndexInit /\ [][PagesNext]_vars

----------------------------------------------------------------------------
(* Properties of the WsEndpoint                                            *)

\* C1: a socket that closes without close() having been called is replaced
\* by a new socket, and on every open socket the pairs subscribed by the
\* frames sent on it are exactly the pairs subscribed and not unsubscribed
\* since (the replay of ws.onopen restores them after a drop).
C1_ReplayOnReconnect ==
    /\ (~_closed /\ inOnClose = 0) =>
           socks[_ws].readyState \in {"CONNECTING", "OPEN"}
    /\ \A i \in DOMAIN socks :
           socks[i].readyState = "OPEN" =>
               SubscribedOn(i) = {PairKey(p) : p \in active}

C1_Witness ==
    /\ ~_closed
    /\ Len(socks) >= 2
    /\ socks[_ws].readyState = "OPEN"
    /\ active # {}
    /\ Len(socks[_ws].sent) = Len(_subs)

\* onMessage arguments the arrived frames call for, in arrival order
ExpectedCalls ==
    FoldLeft(Deliver, <<>>, arrived)

\* C2: onMessage is invoked for the received frames in the order in which
\* the frames arrived on the socket.
C2_DeliveredInArrivalOrder == IsPrefix(delivered, ExpectedCalls)

EventCalls(e) ==
    Count(delivered, LAMBDA m : m.type = e.type /\ m.txid = toHexRev(e.txid))

EventFrames(s, e) == Count(s, LAMBDA f : f = EventFrame(e.type, e.txid))

EventPending(e) ==
    Cardinality({h \in pending : h.data = EventFrame(e.type, e.txid)})

\* C3: an event committed while the channel is subscribed to a touched script
\* is pushed on that channel exactly once and handed to onMessage exactly once
\* (never twice, also with a script subscribed repeatedly or replayed); an
\* event touching no subscribed script is not pushed at all.
C3_ExactlyOnce ==
    \A k \in DOMAIN published :
        LET e == published[k]
            inFlight == FoldLeft(LAMBDA n, sock : n + EventFrames(sock.s2c, e), 0, socks)
        IN /\ inFlight + EventFrames(arrived, e) <= 1
           /\ e.chans = {} => inFlight + EventFrames(arrived, e) = 0
           /\ \A i \in e.chans :
                  socks[i].readyState # "CLOSED" =>
                      EventFrames(socks[i].s2c, e) + EventFrames(arrived, e) = 1
           /\ EventCalls(e) <= 1
           /\ env.onMessage =>
                  EventCalls(e) + EventPending(e) = EventFrames(arrived, e)

C3_Witness ==
    /\ Len(socks) >= 2
    /\ Len(_subs) = 2
    /\ _subs[1] = _subs[2]
    /\ Len(socks[_ws].sent) = 2
    /\ Len(published) = 2
    /\ published[1].type = "Confirmed"
    /\ published[2].type = "RemovedFromMempool"
    /\ \A k \in DOMAIN published :
           /\ published[k].chans = {_ws}
           /\ EventCalls(published[k]) = 1

\* C4: subscribing to a pair that is already subscribed leaves the recorded
\* subscriptions (and so what a reconnect replays) as they were, and
\* unsubscribing a pair that is not subscribed leaves them as they were.
C4_Idempotent ==
    [][\A p \in Pairs :
           /\ (subscribe(p) /\ p \in Range(_subs)) => _subs' = _subs
           /\ (unsubscribe(p) /\ p \notin Range(_subs)) => _subs' = _subs]_vars

----------------------------------------------------------------------------
(* Properties of the handling of one frame                                 *)

VariantNames == <<"Error", "AddedToMempool", "RemovedFromMempool", "Confirmed", "Reorg">>

\* the variants a frame sets
Variants(frame) == {frame[j].field : j \in DOMAIN frame} \cap DOMAIN VariantNames

\* the body of the variant v of a frame (its last occurrence)
VariantBody(frame, v) ==
    frame[CHOOSE j \in DOMAIN frame :
              /\ frame[j].field = v
              /\ \A l \in DOMAIN frame : frame[l].field = v => l <= j].body

\* the frame has been received and _handleMsg has run to its end, with an
\* onMessage callback configured and no more than one variant in the frame
Handled ==
    /\ env.onMessage
    /\ Len(arrived) = 1
    /\ pending = {}
    /\ Cardinality(Variants(arrived[1])) <= 1

\* a frame with no variant is rejected with an error instead of delivered
NoVariantRejected ==
    (Handled /\ Variants(arrived[1]) = {}) =>
        delivered = <<>> /\ rejected = arrived

\* C5 as stated: a frame of one variant gives exactly one onMessage call of
\* that variant's type, the argument of every variant, Error included,
\* carries a txid, and a frame with no variant is rejected with an error.
C5_EveryVariantCarriesTxid ==
    /\ NoVariantRejected
    /\ (Handled /\ Variants(arrived[1]) # {}) =>
           /\ rejected = <<>>
           /\ Len(delivered) = 1
           /\ \A v \in Variants(arrived[1]) :
                  /\ delivered[1].type = VariantNames[v]
                  /\ "txid" \in DOMAIN delivered[1]

\* C5, amended: a frame of one variant gives exactly one onMessage call of
\* that variant's type; AddedToMempool, RemovedFromMempool, Confirmed and
\* Reorg carry the txid of the frame in display order, Error carries
\* errorCode, msg and isUserError and no txid; a frame with no variant is
\* rejected with an error and not delivered.
C5_VariantDelivered ==
    /\ NoVariantRejected
    /\ (Handled /\ Variants(arrived[1]) # {}) =>
           /\ rejected = <<>>
           /\ Len(delivered) = 1
           /\ \A v \in Variants(arrived[1]) :
                  /\ delivered[1].type = VariantNames[v]
                  /\ IF v = 1
                     THEN /\ DOMAIN delivered[1] =
                                 {"type", "errorCode", "msg", "isUserError"}
                          /\ delivered[1].errorCode = VariantBody(arrived[1], v).errorCode
                          /\ delivered[1].msg = VariantBody(arrived[1], v).msg
                          /\ delivered[1].isUserError =
                                 VariantBody(arrived[1], v).isUserError
                     ELSE /\ DOMAIN delivered[1] = {"type", "txid"}
                          /\ delivered[1].txid =
                                 toHexRev(VariantBody(arrived[1], v).txid)

C5_Witness ==
    /\ Handled
    /\ env.dataKind = "Blob"
    /\ Variants(arrived[1]) = {5}
    /\ Len(arrived[1]) = 2
    /\ Len(delivered) = 1
    /\ delivered[1] = [type |-> "Reorg", txid |-> toHexRev(TxidA)]

----------------------------------------------------------------------------
(* Properties of the query calls                                           *)

Returned(op) == call.op = op /\ outcome.kind = "return"

\* (wire bytes, hex string) of every hash of a converted transaction
TxHashes(ptx, ctx) ==
    {<<ptx.txid, ctx.txid>>}
        \cup {<<ptx.inputs[i].prevOut[1].txid, ctx.inputs[i].prevOut.txid>> :
                  i \in DOMAIN ptx.inputs}
        \cup {<<ptx.outputs[i].spentBy[1].txid, ctx.outputs[i].spentBy[1].txid>> :
                  i \in {j \in DOMAIN ptx.outputs : ptx.outputs[j].spentBy # Undefined}}
        \cup {<<ptx.block[1].hash, ctx.block[1].hash>> : i \in {1} \cap DOMAIN ptx.block}

TxsHashes(ptxs, ctxs) == UNION {TxHashes(ptxs[i], ctxs[i]) : i \in DOMAIN ptxs}

BlockInfoHashes(pinfo, cinfo) ==
    {<<pinfo.hash, cinfo.hash>>, <<pinfo.prevHash, cinfo.prevHash>>}

\* (wire bytes, hex string) of every hash the finished call converted
HashPairs ==
    IF Returned("tx") THEN TxHashes(call.response.body, outcome.value)
    ELSE IF Returned("block")
    THEN BlockInfoHashes(call.response.body.blockInfo[1], outcome.value.blockInfo)
             \cup TxsHashes(call.response.body.txs, outcome.value.txs)
    ELSE IF Returned("blocks")
    THEN UNION {BlockInfoHashes(call.response.body.blocks[i], outcome.value[i]) :
                    i \in DOMAIN outcome.value}
    ELSE IF Returned("history")
    THEN TxsHashes(TxHistoryPageDecode(call.response.body).txs, outcome.value.txs)
    ELSE IF Returned("utxos")
    THEN UNION {{<<call.response.body.scriptUtxos[i].utxos[j].outpoint[1].txid,
                   outcome.value[i].utxos[j].outpoint.txid>> :
                     j \in DOMAIN outcome.value[i].utxos} : i \in DOMAIN outcome.value}
    ELSE IF Returned("validateUtxos")
    THEN {<<ValidateUtxoRequestDecode(call.request).outpoints[i].txid,
            call.outpoints[i].txid>> : i \in DOMAIN call.outpoints}
    ELSE {}

\* C6: the same wire hash goes with the same hex string in whichever field
\* of a call's request or result it appears (one byte order everywhere).
C6_OneByteOrder ==
    \A p, q \in HashPairs : p[1] = q[1] => p[2] = q[2]

\* what the chain holds, told in the callers' display-order txids
KnownOutputs(txid) ==
    IF txid = <<"a", "b", "1", "2">> THEN <<"SPENT", "UNSPENT">>
    ELSE IF txid = <<"c", "d", "3", "4">> THEN <<"UNSPENT">>
    ELSE <<>>

ExpectedState(outpoint) ==
    IF KnownOutputs(outpoint.txid) = <<>> THEN "NO_SUCH_TX"
    ELSE IF outpoint.outIdx >= Len(KnownOutputs(outpoint.txid)) THEN "NO_SUCH_OUTPUT"
    ELSE KnownOutputs(outpoint.txid)[outpoint.outIdx + 1]

\* the call has resumed with a response of status 200
Answered(op) ==
    call.op = op /\ call.response.status = 200 /\ outcome.kind # "none"

ExampleBatch ==
    <<[txid |-> HexTxidA, outIdx |-> 0], [txid |-> HexTxidA, outIdx |-> 1],
      [txid |-> HexUnknownTxid, outIdx |-> 0], [txid |-> HexTxidA, outIdx |-> 2]>>

\* C7: an answered validateUtxos returns one UtxoState per requested
\* outpoint, the i-th classifying the i-th outpoint; for [spent, unspent,
\* unknown txid, out-of-range index] it returns [SPENT, UNSPENT, NO_SUCH_TX,
\* NO_SUCH_OUTPUT].
C7_OneStatePerOutpoint ==
    Answered("validateUtxos") =>
        /\ outcome.kind = "return"
        /\ Len(outcome.value) = Len(call.outpoints)
        /\ \A i \in DOMAIN call.outpoints :
               outcome.value[i].state = ExpectedState(call.outpoints[i])
        /\ call.outpoints = ExampleBatch =>
               [i \in 1..4 |-> outcome.value[i].state] =
                   <<"SPENT", "UNSPENT", "NO_SUCH_TX", "NO_SUCH_OUTPUT">>

C7_Witness ==
    /\ Answered("validateUtxos")
    /\ call.outpoints = ExampleBatch
    /\ outcome.kind = "return"
    /\ outcome.value[1].state = "SPENT"
    /\ outcome.value[4].state = "NO_SUCH_OUTPUT"

\* a txid that is not the hex of a hash of the chain's length: no hex at
\* all, or the hex of more or fewer bytes
Malformed(outpoint) ==
    ~IsHex(outpoint.txid) \/ Len(outpoint.txid) # Len(HexTxidA)

\* the call has ended, and not on an error response of the server
Settled(op) ==
    /\ call.op = op
    /\ outcome.kind # "none"
    /\ call.response = Unsent \/ call.response.status = 200

Variations(e) ==
    {[errorCode |-> c, msg |-> m, isUserError |-> b] :
         c \in {e.errorCode, "other-code"}, m \in {e.msg, "other msg"}, b \in BOOLEAN}

\* C9: a call the server answers with a status other than 200 gives its
\* caller an error, and the error tells errorCode, msg and isUserError of
\* the response: no response differing in one of the three gives the same.
C9_ErrorCarriesAllFields ==
    (call.op \in {"block", "blocks", "tx", "history", "utxos", "validateUtxos"}
         /\ call.response.status # 200 /\ outcome.kind # "none") =>
        /\ outcome.kind = "throw"
        /\ \A e \in Variations(ErrorDecode(call.response.body)) :
               ensureResponseErrorThrown(
                   [status |-> call.response.status, body |-> ErrorEncode(e)],
                   call.path) = outcome
                   => e = ErrorDecode(call.response.body)

----------------------------------------------------------------------------
(* Properties of the enum conversions                                      *)

NamesOf(enum) ==
    CASE enum = "Network" -> <<"BCH", "XEC", "XPI", "XRG">>
      [] enum = "UtxoStateVariant" -> <<"UNSPENT", "SPENT", "NO_SUCH_TX", "NO_SUCH_OUTPUT">>
      [] enum = "SlpTxType" -> <<"GENESIS", "SEND", "MINT", "UNKNOWN_TX_TYPE">>
      [] enum = "SlpTokenType" ->
             <<"FUNGIBLE", "NFT1_GROUP", "NFT1_CHILD", "UNKNOWN_TOKEN_TYPE">>

\* the name a finished conversion returned
ConvertedName ==
    CASE call.enum = "SlpTxType" -> outcome.value.txType
      [] call.enum = "SlpTokenType" -> outcome.value.tokenType
      [] OTHER -> outcome.value

\* C10: the enums are numbered as in the schema, and each conversion maps
\* the values 0..3 one-to-one to the matching names and raises an error for
\* every other value, UNRECOGNIZED = -1 included.
C10_EnumConversionTotal ==
    /\ <<Network.BCH, Network.XEC, Network.XPI, Network.XRG>> = <<0, 1, 2, 3>>
    /\ <<SlpTxType.GENESIS, SlpTxType.SEND, SlpTxType.MINT,
         SlpTxType.UNKNOWN_TX_TYPE>> = <<0, 1, 2, 3>>
    /\ <<UtxoStateVariant.UNSPENT, UtxoStateVariant.SPENT, UtxoStateVariant.NO_SUCH_TX,
         UtxoStateVariant.NO_SUCH_OUTPUT>> = <<0, 1, 2, 3>>
    /\ (call.op = "convert" /\ outcome.kind # "none") =>
           IF call.value \in 0..3
           THEN /\ outcome.kind = "return"
                /\ ConvertedName = NamesOf(call.enum)[call.value + 1]
           ELSE outcome.kind = "throw"

C10_Witness ==
    /\ call.op = "convert"
    /\ call.enum = "Network"
    /\ call.value = Network.UNRECOGNIZED
    /\ outcome.kind = "throw"

----------------------------------------------------------------------------
(* Properties of the codecs                                                 *)

\* the members of a Tx and of a BlockInfo, by field number
TxMembers ==
    <<"txid", "version", "inputs", "outputs", "lockTime", "slpTxData",
      "slpErrorMsg", "block", "timeFirstSeen", "network">>

BlockInfoMembers ==
    <<"hash", "prevHash", "height", "nBits", "timestamp", "blockSize",
      "numTxs", "numInputs", "numOutputs", "sumInputSats",
      "sumCoinbaseOutputSats", "sumNormalOutputSats", "sumBurnedSats">>

Encoded(type) == call.op = "codec" /\ call.type = type /\ call.wire # Undefined

\* C11: the fields numbered k of an encoded Tx or BlockInfo carry member k of
\* the table (1=txid .. 10=network, 1=hash .. 13=sumBurnedSats) and nothing
\* else, no other field number is written, and decoding the encoded message
\* gives the message back.
C11_RoundTrip ==
    /\ Encoded("Tx") =>
          /\ \A i \in 1..Len(call.wire[1]) :
                call.wire[1][i].field \in 1..Len(TxMembers)
          /\ \A k \in 1..Len(TxMembers) :
                TxDecode(FieldsOf(call.wire[1], k))
                    = [TxDecode(<<>>) EXCEPT
                          ![TxMembers[k]] = call.message[TxMembers[k]]]
          /\ outcome.kind = "return" => outcome.value = call.message
    /\ Encoded("BlockInfo") =>
          /\ \A i \in 1..Len(call.wire[1]) :
                call.wire[1][i].field \in 1..Len(BlockInfoMembers)
          /\ \A k \in 1..Len(BlockInfoMembers) :
                BlockInfoDecode(FieldsOf(call.wire[1], k))
                    = [BlockInfoDecode(<<>>) EXCEPT
                          ![BlockInfoMembers[k]] = call.message[BlockInfoMembers[k]]]
          /\ outcome.kind = "return" => outcome.value = call.message

\* a Tx with every member set, two inputs and a nested default message,
\* decoded from its encoding
C11_Witness ==
    /\ Encoded("Tx")
    /\ outcome.kind = "return"
    /\ Len(call.wire[1]) = 11
    /\ call.message.timeFirstSeen # 0
    /\ Len(call.message.inputs) = 2
    /\ \E i \in 1..2 : call.message.inputs[i].prevOut = <<[txid |-> <<>>, outIdx |-> 0]>>
    /\ call.message.slpTxData # Undefined
    /\ call.message.slpTxData[1].genesisInfo # Undefined

----------------------------------------------------------------------------
(* Properties of the history pages                                          *)

PageSizeOf(r) == IF r.pageSize = Undefined THEN DefaultPageSize ELSE r.pageSize[1]

\* no reorg or rewrite between the calls: every call met the same entries
Stable == \A i \in DOMAIN reads : reads[i].entries = reads[1].entries

\* every page the first call counted has been read
WalkDone ==
    /\ reads # <<>>
    /\ \A i \in DOMAIN reads : reads[i].outcome.kind = "return"
    /\ Len(reads) >= reads[1].outcome.value.numPages

\* the pages 0..numPages-1 of the walk, one after the other
Concatenated ==
    FoldLeft(LAMBDA acc, r : acc \o r.outcome.value.txs, <<>>,
             SubSeq(reads, 1, reads[1].outcome.value.numPages))

\* C12: when the entries of the script are the same at every call of a walk,
\* the pages 0..numPages-1 that ScriptEndpoint.history returned, one after
\* the other, are exactly the entries in their order, none twice, none
\* missing.
C12_PaginationComplete ==
    (WalkDone /\ Stable) => Concatenated = Map(reads[1].entries, convertToTx)

\* three entries read in two pages of two, the second page partial
C12_Witness ==
    /\ WalkDone
    /\ Stable
    /\ Len(reads[1].entries) = 3
    /\ reads[1].pageSize = <<2>>
    /\ Len(reads) = 2
    /\ Len(reads[2].outcome.value.txs) = 1

\* C13: a history call with a page size from 1 to the configured maximum
\* returns numPages = ceil(total / pageSize); with page size zero or above
\* the maximum it fails with InvalidArgument and returns no page.
C13_NumPages ==
    \A i \in DOMAIN reads :
        LET r == reads[i]
            k == PageSizeOf(r)
            n == Len(r.entries)
        IN IF k \in 1..MaxPageSize
           THEN /\ r.outcome.kind = "return"
                /\ r.outcome.value.numPages * k >= n
                /\ (r.outcome.value.numPages - 1) * k < n
           ELSE /\ r.outcome.kind = "throw"
                /\ r.outcome.error[4] = ErrorDecode(InvalidArgument.body).errorCode
                /\ r.response = InvalidArgument

\* a call with a page size above the maximum, on a script that has entries
C13_Witness ==
    /\ Len(reads) = 1
    /\ reads[1].pageSize = <<MaxPageSize + 1>>
    /\ Len(reads[1].entries) = 3
    /\ outcome.kind = "throw"

PosIn(s, x) == CHOOSE i \in DOMAIN s : s[i] = x

\* the order of section 3 on the known transactions of a store
Before(st, x, y) ==
    LET bx == BlockOf(st, x)
        by == BlockOf(st, y)
    IN IF bx # Undefined /\ by # Undefined
       THEN \/ bx[1].height < by[1].height
            \/ bx[1].height = by[1].height /\ PosIn(bx[1].txs, x) < PosIn(by[1].txs, y)
       ELSE IF bx # Undefined THEN TRUE
       ELSE IF by # Undefined THEN FALSE
       ELSE ArrivalOf(st, x) < ArrivalOf(st, y)

Txids(entries) == [i \in DOMAIN entries |-> entries[i].txid]

\* no reorg or rewrite between two calls: every entry the first met is an
\* entry the second met, in the same block or still unconfirmed
Kept(first, second) ==
    \A i \in DOMAIN first : \E j \in DOMAIN second :
        /\ second[j].txid = first[i].txid
        /\ second[j].block = first[i].block

\* C14: in every committed store the list of every script is in the order
\* (confirmed height, position in the block; unconfirmed entries behind all
\* confirmed ones, by arrival), each transaction once; and between two page
\* reads with no reorg or rewrite the entries the first read met are in the
\* same order at the second.
C14_HistoryOrdered ==
    /\ \A s \in Pairs : \A i, j \in DOMAIN store.history[s] :
           i < j => Before(store, store.history[s][i], store.history[s][j])
    /\ \A i, j \in DOMAIN reads :
           (i < j /\ Kept(reads[i].entries, reads[j].entries))
               => SelectSeq(Txids(reads[j].entries),
                            LAMBDA x : x \in Range(Txids(reads[i].entries)))
                      = Txids(reads[i].entries)

\* a confirmed entry at two heights and an unconfirmed one behind them, the
\* last one arrived between two page reads
C14_Witness ==
    /\ store.history[ChainScript] = <<Tx0.txid, Tx1.txid, Tx2.txid>>
    /\ BlockOf(store, Tx1.txid) # Undefined
    /\ BlockOf(store, Tx2.txid) = Undefined
    /\ Len(reads) = 2
    /\ reads[1].script = ChainScript
    /\ Len(reads[1].entries) = 2
    /\ Len(reads[2].entries) = 3

----------------------------------------------------------------------------
(* Properties of the Chain Synchronizer                                     *)

\* the store before the i-th event of the log
StoreBefore(i) == IF i = 1 THEN GenesisStore ELSE sync.log[i - 1].store

\* the events i .. i+2n-1 of the log connected n blocks and then
\* disconnected the same blocks in reverse order
RoundTrip(i, n) ==
    /\ i + 2 * n - 1 <= Len(sync.log)
    /\ \A m \in 0..(n - 1) :
           /\ sync.log[i + m].result = "connected"
           /\ sync.log[i + 2 * n - 1 - m].result = "disconnected"
           /\ sync.log[i + 2 * n - 1 - m].event.arg = sync.log[i + m].event.arg

RoundTrips ==
    {r \in (1..MaxChainEvents + 1) \X (1..MaxChainEvents + 1) : RoundTrip(r[1], r[2])}

\* the UTXO set, the script indexes and the mempool contents of a store
Indexes(st) == [utxos |-> st.utxos, history |-> st.history, mempool |-> st.mempool]

\* the non-coinbase transactions of the blocks of a round trip that were
\* not in the mempool before its first block
FirstSeen(i, n) ==
    {x \in UNION {Range(sync.log[i + m].event.arg.txs) : m \in 0..(n - 1)} :
        ~TxOf(x).isCoinbase /\ x \notin StoreBefore(i).mempool}

\* C15 as stated: every round trip returns the UTXO set, the script indexes
\* and the mempool contents to their state before the first block.
C15_RoundTripRestores ==
    \A r \in RoundTrips :
        Indexes(sync.log[r[1] + 2 * r[2] - 1].store) = Indexes(StoreBefore(r[1]))

\* C15: connecting B1..Bn and disconnecting Bn..B1 returns the blocks to
\* those before B1 and leaves in the mempool what was there before B1 and
\* the non-coinbase transactions first seen in B1..Bn; when every
\* non-coinbase transaction of B1..Bn was in the mempool before B1, the UTXO
\* set, the script indexes and the mempool contents are those before B1.
C15_RoundTrip ==
    \A r \in RoundTrips :
        LET before == StoreBefore(r[1])
            after == sync.log[r[1] + 2 * r[2] - 1].store
            seen == FirstSeen(r[1], r[2])
        IN /\ after.blocks = before.blocks
           /\ after.mempool = before.mempool \cup seen
           /\ seen = {} => Indexes(after) = Indexes(before)

\* two blocks connected over a mempool that held their transactions, and
\* disconnected again
C15_Witness ==
    \E r \in RoundTrips :
        /\ r[2] = 2
        /\ FirstSeen(r[1], r[2]) = {}
        /\ StoreBefore(r[1]).mempool = {Tx1.txid, Tx2.txid}
        /\ store = sync.log[r[1] + 3].store

\* the number of notifications emitted before the i-th event of the log
EmittedBefore(i) == IF i = 1 THEN 0 ELSE sync.log[i - 1].emitted

\* the i-th event of the log is a BlockConnected of a block that an earlier
\* event connected and that was still applied when the i-th event was taken
AppliedAgain(i) ==
    /\ sync.log[i].event.type = "BlockConnected"
    /\ \E j \in 1..(i - 1) :
           /\ sync.log[j].event = sync.log[i].event
           /\ sync.log[j].result = "connected"
    /\ \E k \in DOMAIN StoreBefore(i).blocks :
           StoreBefore(i).blocks[k].hash = sync.log[i].event.arg.hash

\* C16: a BlockConnected event for a block that an earlier BlockConnected
\* applied and that is still applied is rejected as already applied: the
\* store (blocks, transactions, UTXO set, script history) is the one before
\* the event, no notification is emitted, and putBlock of that block on the
\* store fails with ConflictError.
C16_AppliedOnce ==
    \A i \in DOMAIN sync.log :
        AppliedAgain(i) =>
            /\ sync.log[i].result = "already applied"
            /\ sync.log[i].store = StoreBefore(i)
            /\ sync.log[i].emitted = EmittedBefore(i)
            /\ putBlock(StoreBefore(i), sync.log[i].event.arg) = ConflictError

\* BlockConnected(A1) applied, with its notifications emitted, and then
\* handled a second time
C16_Witness ==
    /\ Len(sync.log) = 2
    /\ AppliedAgain(2)
    /\ sync.log[2].event.arg = BlockA1
    /\ sync.log[1].emitted = 2
    /\ Len(store.blocks) = 2

----------------------------------------------------------------------------
(* Properties of the spentBy back-references                                *)

\* the back-references the inputs of the known transactions make
References(st) ==
    {[out |-> TxOf(x).inputs[i], by |-> [txid |-> x, outIdx |-> i - 1]] :
        <<x, i>> \in {xi \in Range(st.arrival) \X (1..MaxItems) :
                         xi[2] \in DOMAIN TxOf(xi[1]).inputs}}

\* the spentBy entries of a store are the references of its known
\* transactions, and its UTXO set holds the outputs of known transactions
\* that have no spentBy
StoreConsistent(st) ==
    /\ st.spentBy = References(st)
    /\ st.utxos = {o \in UNION {OutPointsOf(TxOf(x)) : x \in Range(st.arrival)} :
                      \A r \in st.spentBy : r.out # o}

\* a history call that returned every entry of its script in one page
WholeHistory(r) ==
    /\ r.outcome.kind = "return"
    /\ Len(r.outcome.value.txs) = Len(r.entries)

\* in the transactions a caller got, output j of transaction i has
\* spentBy = op exactly when input op.outIdx of transaction op.txid
\* references it
ReferencedViaSpentBy(r, i, j) ==
    LET txs == r.outcome.value.txs
        out == [txid |-> txs[i].txid, outIdx |-> j - 1]
    IN /\ \A u \in DOMAIN txs : \A k \in DOMAIN txs[u].inputs :
              txs[u].inputs[k].prevOut = out
                  => txs[i].outputs[j].spentBy = <<[txid |-> txs[u].txid, outIdx |-> k - 1]>>
       /\ txs[i].outputs[j].spentBy # Undefined
              => \E u \in DOMAIN txs : \E k \in DOMAIN txs[u].inputs :
                    /\ txs[u].inputs[k].prevOut = out
                    /\ txs[i].outputs[j].spentBy[1] = [txid |-> txs[u].txid, outIdx |-> k - 1]

\* C17: in every state the spentBy entries of the store are the references
\* made by the inputs of its known transactions and the UTXO set holds
\* exactly the outputs of known transactions without spentBy; and in the
\* whole history of a script as a caller gets it, an output paying to the
\* script has spentBy = op exactly when the input op of a transaction of
\* that history references it.
C17_SpentByConsistent ==
    /\ StoreConsistent(store)
    /\ \A n \in DOMAIN reads :
           WholeHistory(reads[n]) =>
               \A i \in DOMAIN reads[n].entries :
                   \A j \in DOMAIN reads[n].entries[i].outputs :
                       ScriptOf(reads[n].entries[i].outputs[j].outputScript) = reads[n].script
                           => ReferencedViaSpentBy(reads[n], i, j)

----------------------------------------------------------------------------
(* Properties of ingestion and snapshots                                    *)

\* a store with its last k blocks removed by removeBlock
RECURSIVE Removed(_, _)
Removed(st, k) ==
    IF k = 0 \/ Len(st.blocks) <= 1 THEN st ELSE Removed(removeBlock(st), k - 1)

\* the stores the applied events left, one per prefix of the log
PrefixStores == {GenesisStore} \cup {sync.log[i].store : i \in DOMAIN sync.log}

\* the transactions of the block in hand that the open batch has taken
Applied(all) == SubSeq(all, 1, Len(all) - Len(sync.work.left))

\* the open batch is the store with the block in hand applied as far as the
\* transactions taken, the store itself untouched
BatchOnStore ==
    LET b == sync.work.event[1].arg
        tipTxs == store.blocks[Len(store.blocks)].txs
    IN IF Putting
       THEN /\ sync.work.batch[1] =
                   FoldLeft(LAMBDA acc, txid : putTx(acc, TxOf(txid)),
                            [store EXCEPT !.blocks = Append(@, Header(b))],
                            Applied(b.txs))
            /\ sync.work.left = <<>> => sync.work.batch[1] = putBlock(store, b).value
       ELSE /\ sync.work.batch[1] =
                   FoldLeft(LAMBDA acc, txid : removeTx(acc, TxOf(txid)), store,
                            Applied(Reverse(tipTxs)))
            /\ sync.work.left = <<>> =>
                   [sync.work.batch[1] EXCEPT !.blocks = SubSeq(@, 1, Len(@) - 1)]
                       = removeBlock(store)

\* the path of the n-th history call
PathOf(r) == historyPath(r.script, <<r.page>>, r.pageSize)

\* C18: one event is in hand at a time and its batch is built beside the
\* store; every store written is the store some prefix of the applied
\* events left, or that store with whole blocks removed by the reorg walk;
\* and every history call running beside ingestion got the page of one of
\* the written stores, never of a batch.
C18_SnapshotIsolation ==
    /\ sync.work.batch # Undefined => BatchOnStore
    /\ committed \cup {store}
           \subseteq {Removed(from, k) : from \in PrefixStores, k \in 0..MaxLookback}
    /\ \A n \in DOMAIN reads :
           /\ reads[n].outcome = historyResult(reads[n].response, PathOf(reads[n]))
           /\ \E st \in committed :
                  reads[n].response = ServeScriptHistory(st, PathOf(reads[n]))

\* a history call made while a block is half applied: one of its
\* transactions in the batch, another still to come, the batch holding an
\* entry of the script that the store does not
C18_Witness ==
    /\ reads # <<>>
    /\ LET r == reads[Len(reads)]
       IN /\ r.halfway
          /\ r.outcome.kind = "return"
          /\ r.outcome.value.txs # <<>>

----------------------------------------------------------------------------
(* Properties of the fan-out                                                *)

\* the emitted notifications that touch a script the channel subscribed
NotesFor(c) ==
    SelectSeq(sync.emitted,
              LAMBDA n : chans[c].subs \cap Touched(TxOf(n.txid)) # {})

\* the events the Synchronizer holds: applied, in hand, or queued
EventsHeld ==
    Len(sync.log) + Len(queue) + (IF sync.work.event = Undefined THEN 0 ELSE 1)

\* C19: whatever the mailboxes hold, the Synchronizer can take the next
\* queued event and can take its next step on the event in hand, and no
\* announced event is lost; a channel that is not closed has received, or
\* holds in its mailbox, every notification emitted for its scripts, in
\* commit order, each once; a closed channel received a prefix of them.
C19_NeverBlocks ==
    /\ sync.work.event # Undefined => ENABLED SyncStep
    /\ (~sync.halted /\ sync.work.event = Undefined /\ queue # <<>>) => ENABLED SyncTake
    /\ EventsHeld = node.sent
    /\ \A c \in Channels :
           IF chans[c].closed
           THEN IsPrefix(chans[c].received, NotesFor(c))
           ELSE chans[c].received \o chans[c].mailbox = NotesFor(c)

\* channel 2 never read and was closed on a full mailbox, three events are
\* applied, and channel 1 has read one notification and holds the two
\* emitted after it, in the order of their commits
C19_Witness ==
    /\ chans[2].closed
    /\ chans[2].received = <<>>
    /\ Len(sync.log) = 3
    /\ ~chans[1].closed
    /\ Len(chans[1].received) = 1
    /\ Len(chans[1].mailbox) = 2
    /\ chans[1].mailbox[1] # chans[1].mailbox[2]
    /\ chans[1].received \o chans[1].mailbox = NotesFor(1)

----------------------------------------------------------------------------
(* Properties of the reorg walk                                             *)

\* the i-th event of the log is a BlockConnected that met another tip
OffTip(i) ==
    /\ sync.log[i].event.type = "BlockConnected"
    /\ sync.log[i].event.arg.prevHash # Tip(StoreBefore(i))
    /\ \A k \in DOMAIN StoreBefore(i).blocks :
           StoreBefore(i).blocks[k].hash # sync.log[i].event.arg.hash

\* the blocks removeBlock takes off a store to reach the block with the hash
Ancestors(st, hash) == {k \in 1..MaxLookback : Tip(Removed(st, k)) = hash}

\* every BlockConnected that met another tip ended in one of two ways: the
\* block stands on the store with the blocks down to its parent removed, or
\* the parent is not within the lookback and the event ended with a fault
WalkOutcome ==
    \A i \in DOMAIN sync.log :
        OffTip(i) =>
            LET b == sync.log[i].event.arg
                ks == Ancestors(StoreBefore(i), b.prevHash)
            IN IF ks # {}
               THEN /\ sync.log[i].result = "connected"
                    /\ \E k \in ks :
                           sync.log[i].store = putBlock(Removed(StoreBefore(i), k), b).value
               ELSE /\ sync.log[i].result = "fault"
                    /\ sync.halted

\* a BlockConnected that does not stand on the tip is in hand
Walking ==
    /\ sync.work.event # Undefined
    /\ sync.work.event[1].type = "BlockConnected"
    /\ sync.work.event[1].arg.prevHash # Tip(store)
    /\ ~AlreadyApplied(sync.work.event[1].arg)

\* C20: a BlockConnected whose prevHash is not the tip leads to the block
\* connected on its parent, the blocks above the parent removed, or, when
\* the parent is not within the lookback, to a fault that halts ingestion;
\* no other result ends such an event; and again and again the indexed tip
\* is the node's tip, unless ingestion halted.
C20_ReorgConverges ==
    /\ []WalkOutcome
    /\ Walking ~> (/\ sync.work.event = Undefined
                   /\ sync.log # <<>>
                   /\ OffTip(Len(sync.log)))
    /\ []<>(sync.halted \/ Tip(store) = NodeTip.hash)

\* the node went from A1 to B1 announcing only B1; the Synchronizer removed
\* A1, connected B1, and the indexed tip is the node's
C20_Witness ==
    /\ Len(sync.log) = 2
    /\ OffTip(2)
    /\ sync.log[2].result = "connected"
    /\ sync.log[1].event.arg = BlockA1
    /\ Tip(store) = BlockB1.hash
    /\ NodeTip = BlockB1
    /\ ~sync.halted

----------------------------------------------------------------------------
(* ChronikClient: the constructor and ws(), on URLs that are sequences of   *)
(* characters: a head (a scheme, or something close to one) and a tail.     *)

MaxTail == 2   \* most characters of a URL behind its head

Https == <<"h", "t", "t", "p", "s", ":", "/", "/">>
Http == <<"h", "t", "t", "p", ":", "/", "/">>

UrlHeads ==
    {<<>>, Https, Http, <<"h", "t", "t", "p", "s", ":", "/">>,
     <<"w", "s", "s", ":", "/", "/">>, <<"f", "t", "p", ":", "/", "/">>,
     <<"x">> \o Http}

UrlTails == UNION {[1..n -> {"a", ".", "/"}] : n \in 0..MaxTail}

Urls == {head \o tail : head \in UrlHeads, tail \in UrlTails}

\* String.prototype.endsWith, startsWith, substr(start)
endsWith(str, c) == str # <<>> /\ str[Len(str)] = c
startsWith(str, prefix) == IsPrefix(prefix, str)
substr(str, start) == SubSeq(str, start + 1, Len(str))

\* the constructor keeping the scheme
ChronikClientMut(url) ==
    IF endsWith(url, "/")
    THEN Throw(<<"`url` cannot end with '/', got: ", url>>)
    ELSE IF startsWith(url, Https) \/ startsWith(url, Http)
    THEN Return([_url |-> url, _wsUrl |-> url])
    ELSE Throw(<<"`url` must start with 'https://' or 'http://', got: ", url>>)

\* new ChronikClient(url)
ChronikClient(url) ==
    IF endsWith(url, "/")
    THEN Throw(<<"`url` cannot end with '/', got: ", url>>)
    ELSE IF startsWith(url, Https)
    THEN Return([_url |-> url,
                 _wsUrl |-> <<"w", "s", "s", ":", "/", "/">> \o substr(url, Len(Https))])
    ELSE IF startsWith(url, Http)
    THEN Return([_url |-> url,
                 _wsUrl |-> <<"w", "s", ":", "/", "/">> \o substr(url, Len(Http))])
    ELSE Throw(<<"`url` must start with 'https://' or 'http://', got: ", url>>)

\* ChronikClient.ws: the URL the WsEndpoint connects to
wsEndpointUrl(client) == client._wsUrl \o <<"/", "w", "s">>

\* new WsEndpoint(wsUrl, config), as its caller holds it: _ws is the socket
\* _connect made, among the ss made before
WsEndpoint(wsUrl, config, ss) ==
    [_wsUrl |-> wsUrl, _config |-> config, _closed |-> FALSE, _subs |-> <<>>,
     _ws |-> Len(ss) + 1]

UrlInit ==
    /\ IxIdle
    /\ WsIdle
    /\ env = [dataKind |-> "Buffer", onMessage |-> TRUE, onReconnect |-> FALSE]
    /\ call \in [op : {"new ChronikClient"}, url : Urls]
    /\ outcome = [kind |-> "none"]

Construct ==
    /\ call.op = "new ChronikClient"
    /\ outcome = [kind |-> "none"]
    /\ outcome' = ChronikClient(call.url)
    /\ UNCHANGED <<call, wsVars, ixVars>>

\* client.ws(config) on the client the constructor returned, any number of
\* times: every call constructs a WsEndpoint, whose constructor connects a
\* socket of its own; the endpoint variables are those of the endpoint
\* returned last
OpenWs ==
    /\ outcome.kind = "return"
    /\ call.op \in {"new ChronikClient", "ws"}
    /\ Len(socks) < MaxSockets
    /\ LET client == IF call.op = "ws" THEN call.client ELSE outcome.value
           config == [onMessage |-> env.onMessage, onReconnect |-> env.onReconnect]
       IN /\ call' = [op |-> "ws", url |-> call.url, client |-> client]
          /\ outcome' = Return(WsEndpoint(wsEndpointUrl(client), config, socks))
    /\ _closed' = FALSE
    /\ _subs' = <<>>
    /\ socks' = _connect(socks)
    /\ _ws' = Len(socks) + 1
    /\ _connected' = FALSE
    /\ UNCHANGED <<pending, delivered, rejected, arrived, published, active, nCalls,
                   nReconnect, env, waits, inOnClose, ixVars>>

UrlNext ==
    \/ Construct
    \/ OpenWs

SpecUrl == UrlInit /\ [][UrlNext]_vars

\* C30: new ChronikClient(url) returns a client exactly when url starts with
\* "https://" or "http://" and does not end with "/", and throws otherwise;
\* the client's WebSocket URL is url with "https://" replaced by "wss://" or
\* "http://" by "ws://" and the rest unchanged, and ws() connects to that
\* URL followed by "/ws".
C30_UrlAccepted ==
    LET url == call.url
        accepted == (startsWith(url, Https) \/ startsWith(url, Http)) /\ ~endsWith(url, "/")
        rest == IF startsWith(url, Https) THEN substr(url, 8) ELSE substr(url, 7)
        scheme == IF startsWith(url, Https) THEN <<"w", "s", "s">> ELSE <<"w", "s">>
    IN /\ (call.op = "new ChronikClient" /\ outcome.kind # "none") =>
              /\ outcome.kind = "return" <=> accepted
              /\ outcome.kind = "throw" <=> ~accepted
              /\ accepted => /\ outcome.value._url = url
                              /\ outcome.value._wsUrl = scheme \o <<":", "/", "/">> \o rest
       /\ call.op = "ws" =>
              /\ accepted
              /\ call.client._wsUrl = scheme \o <<":", "/", "/">> \o rest
              /\ outcome.kind = "return"
              /\ outcome.value._wsUrl =
                     scheme \o <<":", "/", "/">> \o rest \o <<"/", "w", "s">>
              /\ outcome.value._ws = _ws
              /\ socks[_ws].readyState = "CONNECTING"

\* "https://a." accepted, with its endpoint "wss://a./ws"
C30_Witness ==
    /\ call.op = "ws"
    /\ call.url = Https \o <<"a", ".">>
    /\ outcome.value._wsUrl = <<"w", "s", "s", ":", "/", "/", "a", ".", "/", "w", "s">>
    /\ Len(socks) = 1

----------------------------------------------------------------------------
(* Properties of the history request                                        *)

\* C23: the path of history(page, pageSize) ends with "/history" and a query
\* string that carries page if and only if page is given and page_size if
\* and only if pageSize is given, each with the given value, 0 included, the
\* first behind "?" and the second behind "&"; with neither given there is
\* no query string.
C23_OptionalPaging ==
    call.op = "history" =>
        /\ call.path[5] = "/history"
        /\ call.path[6] =
               (IF call.page = Undefined THEN <<>> ELSE <<"?page=", call.page[1]>>)
               \o (IF call.pageSize = Undefined THEN <<>>
                   ELSE IF call.page = Undefined
                   THEN <<"?page_size=", call.pageSize[1]>>
                   ELSE <<"&page_size=", call.pageSize[1]>>)

\* history(0) with no page size: the path carries page=0 and nothing else
C23_Witness ==
    /\ call.op = "history"
    /\ call.page = <<0>>
    /\ call.pageSize = Undefined
    /\ call.path[6] = <<"?page=", 0>>

----------------------------------------------------------------------------
(* The Utxo messages of the schema chronik.proto beside the codecs of      *)
(* chronik.ts that read them                                                *)

MaxUtxos == 2

\* protobufjs Writer and Reader as chronik.ts calls them, byte by byte.
\* Numbers are 32-bit integers: an int32 is itself, and a uint32 of 2^31 or
\* more is held as the number less 2^32, the int32 of the same 32 bits.
\* A Long is its two 32-bit halves, as long.js holds it.

\* the low 31 bits of a 32-bit number
Low31(x) == IF x >= 0 THEN x ELSE (x + 1073741824) + 1073741824

\* the 32-bit number of 31 low bits and bit 32
Signed(low31, bit32) == IF bit32 THEN (low31 - 1073741824) - 1073741824 ELSE low31

\* new Long(low, high, unsigned)
Long(low, high, unsigned) == [low |-> low, high |-> high, unsigned |-> unsigned]

LongZERO == Long(0, 0, FALSE)

LongUZERO == Long(0, 0, TRUE)

\* Long.isZero
isZero(long) == long.low = 0 /\ long.high = 0

\* bytes of a varint: the groups of 7 bits, the low group first, bit 8 set
\* on every byte but the last
VarintBytes(groups) ==
    [k \in DOMAIN groups |-> IF k < Len(groups) THEN 128 + groups[k] ELSE groups[k]]

\* the groups without the zero groups at their end, the first one kept
RECURSIVE Minimal(_)
Minimal(groups) ==
    IF Len(groups) > 1 /\ groups[Len(groups)] = 0
    THEN Minimal(SubSeq(groups, 1, Len(groups) - 1))
    ELSE groups

\* the four low groups of a 32-bit number
LowGroups(x) ==
    <<Low31(x) % 128, (Low31(x) \div 128) % 128, (Low31(x) \div 16384) % 128,
      (Low31(x) \div 2097152) % 128>>

\* bits 29 to 32 of a 32-bit number
TopBits(x) == (Low31(x) \div 268435456) + (IF x < 0 THEN 8 ELSE 0)

\* Writer.uint32: `value >>> 0` in one to five bytes
WriterUint32(value) == VarintBytes(Minimal(LowGroups(value) \o <<TopBits(value)>>))

\* writeVarint64 of LongBits(lo, hi): the ten groups of the 64 bits, as many
\* bytes as hold them
writeVarint64(lo, hi) ==
    VarintBytes(Minimal(
        LowGroups(lo)
            \o <<TopBits(lo) + (16 * (Low31(hi) % 8))>>
            \o <<(Low31(hi) \div 8) % 128, (Low31(hi) \div 1024) % 128,
                 (Low31(hi) \div 131072) % 128, Low31(hi) \div 16777216>>
            \o <<IF hi < 0 THEN 1 ELSE 0>>))

\* Writer.int32: a negative value as the ten bytes of its 64-bit form
WriterInt32(value) ==
    IF value < 0 THEN writeVarint64(value, -1) ELSE WriterUint32(value)

\* Writer.int64 and Writer.uint64, of a Long
WriterInt64(value) == writeVarint64(value.low, value.high)

\* Writer.bool
WriterBool(value) == <<IF value THEN 1 ELSE 0>>

\* Writer.bytes, and Writer.fork() ... ldelim() around the bytes of a
\* member message: the length, then the bytes
WriterBytes(value) == WriterUint32(Len(value)) \o value

\* new Reader(input); pos counts the bytes read
Reader(input) == [buf |-> input, pos |-> 0]

\* the reader moved to pos
At(reader, pos) == [reader EXCEPT !.pos = pos]

\* a read that returned value and left the reader at pos
Got(value, pos) == [kind |-> "return", value |-> value, pos |-> pos]

\* the next read, unless the read before threw
Then(got, Read(_)) == IF got.kind = "throw" THEN got ELSE Read(got)

\* `buf[pos] & 127`: behind the end buf[pos] is undefined, and the bits are 0
Bits(reader, pos) ==
    IF pos < Len(reader.buf) THEN reader.buf[pos + 1] % 128 ELSE 0

\* `buf[pos] < 128`: false behind the end
Ends(reader, pos) == pos < Len(reader.buf) /\ reader.buf[pos + 1] < 128

\* a number of an error's text: a uint32 of 2^31 or more in its decimal
\* digits
Decimal(n) ==
    IF n >= 0 THEN <<n>>
    ELSE LET low == 3648 + (Low31(n) % 10000)
         IN <<214748 + (Low31(n) \div 10000) + (low \div 10000),
              (low \div 1000) % 10, (low \div 100) % 10, (low \div 10) % 10,
              low % 10>>

\* indexOutOfRange of the Reader: `writeLength || 1`
indexOutOfRange(reader, writeLength) ==
    Throw(<<"index out of range: ", reader.pos, " + ">>
              \o (IF writeLength = 0 THEN <<1>> ELSE Decimal(writeLength))
              \o <<" > ", Len(reader.buf)>>)

\* Reader.uint32: up to five bytes are read with no look at the end of the
\* buffer; when the fifth goes on as well, five more bytes are passed over
\* unread, and only then is the end looked at
ReaderUint32(reader) ==
    LET pos == reader.pos
        low(n) == FoldLeft(LAMBDA sum, k : sum + Bits(reader, pos + k) * 128 ^ k,
                           0, [k \in 1..n |-> k - 1])
        fifth == IF pos + 4 < Len(reader.buf) THEN reader.buf[pos + 5] % 16 ELSE 0
        value == Signed(low(4) + (fifth % 8) * 268435456, fifth >= 8)
    IN CASE Ends(reader, pos) -> Got(low(1), pos + 1)
         [] ~Ends(reader, pos) /\ Ends(reader, pos + 1) -> Got(low(2), pos + 2)
         [] (\A k \in 0..1 : ~Ends(reader, pos + k)) /\ Ends(reader, pos + 2) ->
                Got(low(3), pos + 3)
         [] (\A k \in 0..2 : ~Ends(reader, pos + k)) /\ Ends(reader, pos + 3) ->
                Got(low(4), pos + 4)
         [] (\A k \in 0..3 : ~Ends(reader, pos + k)) /\ Ends(reader, pos + 4) ->
                Got(value, pos + 5)
         [] \A k \in 0..4 : ~Ends(reader, pos + k) ->
                IF pos + 10 > Len(reader.buf)
                THEN indexOutOfRange(At(reader, Len(reader.buf)), 10)
                ELSE Got(value, pos + 10)

\* Reader.int32: `this.uint32() | 0`
ReaderInt32(reader) == ReaderUint32(reader)

\* Reader.bool: `this.uint32() !== 0`
ReaderBool(reader) ==
    Then(ReaderUint32(reader), LAMBDA got : Got(got.value # 0, got.pos))

\* LongBits(lo, hi) of the groups of a varint, as the Long they make
toLong(groups, unsigned) ==
    LET g(k) == IF k <= Len(groups) THEN groups[k] ELSE 0
    IN Long(Signed(g(1) + g(2) * 128 + g(3) * 16384 + g(4) * 2097152
                       + (g(5) % 8) * 268435456,
                   (g(5) \div 8) % 2 = 1),
            Signed((g(5) \div 16) + g(6) * 8 + g(7) * 1024 + g(8) * 131072
                       + g(9) * 16777216,
                   g(10) % 2 = 1),
            unsigned)

\* readLongVarint, having read the groups of n bytes, the first at start.
\* With more than four bytes ahead, five bytes are read with no look at the
\* end; with fewer, three are read behind a look at the end and the fourth
\* with none, and it ends the varint whatever it is.  The bytes six to ten
\* are read the same two ways; a tenth byte that goes on is an error.
RECURSIVE readLongVarint(_, _, _)
readLongVarint(reader, start, groups) ==
    LET n == Len(groups)
        pos == start + n
        len == Len(reader.buf)
        fast == IF n < 5 THEN len - start > 4 ELSE len - (start + 5) > 4
        read == Append(groups, Bits(reader, pos))
    IN IF n = 10 THEN Throw(<<"invalid varint encoding">>)
       ELSE IF ~fast /\ n = 3 THEN Got(read, pos + 1)
       ELSE IF ~fast /\ pos >= len THEN indexOutOfRange(At(reader, pos), 0)
       ELSE IF Ends(reader, pos) THEN Got(read, pos + 1)
       ELSE readLongVarint(reader, start, read)

\* Reader.int64
ReaderInt64(reader) ==
    Then(readLongVarint(reader, reader.pos, <<>>), LAMBDA got :
        Got(toLong(got.value, FALSE), got.pos))

\* Reader.uint64
ReaderUint64(reader) ==
    Then(readLongVarint(reader, reader.pos, <<>>), LAMBDA got :
        Got(toLong(got.value, TRUE), got.pos))

\* Reader.bytes
ReaderBytes(reader) ==
    Then(ReaderUint32(reader), LAMBDA length :
        IF length.value < 0 \/ length.value > Len(reader.buf) - length.pos
        THEN indexOutOfRange(At(reader, length.pos), length.value)
        ELSE Got(SubSeq(reader.buf, length.pos + 1, length.pos + length.value),
                 length.pos + length.value))

\* Reader.skip(length)
ReaderSkip(reader, length) ==
    IF length < 0 \/ length > Len(reader.buf) - reader.pos
    THEN indexOutOfRange(reader, length)
    ELSE Got(<<>>, reader.pos + length)

\* Reader.skip(): over a varint
RECURSIVE ReaderSkipVarint(_)
ReaderSkipVarint(reader) ==
    IF reader.pos >= Len(reader.buf) THEN indexOutOfRange(reader, 0)
    ELSE IF reader.buf[reader.pos + 1] >= 128
    THEN ReaderSkipVarint(At(reader, reader.pos + 1))
    ELSE Got(<<>>, reader.pos + 1)

\* Reader.skipType
RECURSIVE skipType(_, _)
skipType(reader, wireType) ==
    CASE wireType = 0 -> ReaderSkipVarint(reader)
      [] wireType = 1 -> ReaderSkip(reader, 8)
      [] wireType = 2 ->
             Then(ReaderUint32(reader), LAMBDA length :
                 ReaderSkip(At(reader, length.pos), length.value))
      [] wireType = 3 ->
             Then(ReaderUint32(reader), LAMBDA tag :
                 IF tag.value % 8 = 4 THEN Got(<<>>, tag.pos)
                 ELSE Then(skipType(At(reader, tag.pos), tag.value % 8),
                           LAMBDA skipped : skipType(At(reader, skipped.pos), 3)))
      [] wireType = 5 -> ReaderSkip(reader, 4)
      [] OTHER -> Throw(<<"invalid wire type ", wireType, " at offset ", reader.pos>>)

\* `tag >>> 3`
FieldNumber(tag) == IF tag >= 0 THEN tag \div 8 ELSE (tag \div 8) + 536870912

\* the loop of every decode: `while (reader.pos < end)` reads a tag and
\* switches on its field number; the reader runs on behind end when a field
\* ends there, and a throw ends the decode.  The reader comes no further
\* than one byte behind the buffer, so an end behind that is held as the
\* second byte behind it.
DecodeLoop(input, length, base, Switch(_, _, _)) ==
    LET end == IF length = Undefined THEN Len(input.buf)
               ELSE IF length[1] < 0 \/ length[1] > Len(input.buf) + 1
               THEN Len(input.buf) + 2
               ELSE input.pos + length[1]
        RECURSIVE loop(_, _)
        loop(pos, message) ==
            IF pos >= end THEN Got(message, pos)
            ELSE Then(ReaderUint32(At(input, pos)), LAMBDA tag :
                     Then(Switch(tag.value, At(input, tag.pos), message),
                          LAMBDA got : loop(got.pos, got.value)))
    IN loop(input.pos, base)

\* `default: reader.skipType(tag & 7)`
DecodeDefault(tag, reader, message) ==
    Then(skipType(reader, tag % 8), LAMBDA skipped : Got(message, skipped.pos))

\* OutPoint.encode, to bytes
OutPointWrite(message) ==
    (IF Len(message.txid) # 0
         THEN WriterUint32(10) \o WriterBytes(message.txid) ELSE <<>>)
        \o (IF message.outIdx # 0
                THEN WriterUint32(16) \o WriterUint32(message.outIdx) ELSE <<>>)

\* OutPoint.decode(reader, length)
OutPointRead(input, length) ==
    DecodeLoop(input, length, [txid |-> <<>>, outIdx |-> 0],
        LAMBDA tag, reader, message :
            CASE FieldNumber(tag) = 1 ->
                     Then(ReaderBytes(reader), LAMBDA got :
                         Got([message EXCEPT !.txid = got.value], got.pos))
              [] FieldNumber(tag) = 2 ->
                     Then(ReaderUint32(reader), LAMBDA got :
                         Got([message EXCEPT !.outIdx = got.value], got.pos))
              [] OTHER -> DecodeDefault(tag, reader, message))

\* BlockMetadata.encode, to bytes
BlockMetadataWrite(message) ==
    (IF message.height # 0
         THEN WriterUint32(8) \o WriterInt32(message.height) ELSE <<>>)
        \o (IF Len(message.hash) # 0
                THEN WriterUint32(18) \o WriterBytes(message.hash) ELSE <<>>)
        \o (IF ~isZero(message.timestamp)
                THEN WriterUint32(24) \o WriterInt64(message.timestamp) ELSE <<>>)

\* SlpMeta.encode, to bytes
SlpMetaWrite(message) ==
    (IF message.tokenType # 0
         THEN WriterUint32(8) \o WriterInt32(message.tokenType) ELSE <<>>)
        \o (IF message.txType # 0
                THEN WriterUint32(16) \o WriterInt32(message.txType) ELSE <<>>)
        \o (IF Len(message.tokenId) # 0
                THEN WriterUint32(26) \o WriterBytes(message.tokenId) ELSE <<>>)
        \o (IF Len(message.groupTokenId) # 0
                THEN WriterUint32(34) \o WriterBytes(message.groupTokenId)
                ELSE <<>>)

\* SlpMeta.decode(reader, length)
SlpMetaRead(input, length) ==
    DecodeLoop(input, length,
        [tokenType |-> 0, txType |-> 0, tokenId |-> <<>>, groupTokenId |-> <<>>],
        LAMBDA tag, reader, message :
            CASE FieldNumber(tag) = 1 ->
                     Then(ReaderInt32(reader), LAMBDA got :
                         Got([message EXCEPT !.tokenType = got.value], got.pos))
              [] FieldNumber(tag) = 2 ->
                     Then(ReaderInt32(reader), LAMBDA got :
                         Got([message EXCEPT !.txType = got.value], got.pos))
              [] FieldNumber(tag) = 3 ->
                     Then(ReaderBytes(reader), LAMBDA got :
                         Got([message EXCEPT !.tokenId = got.value], got.pos))
              [] FieldNumber(tag) = 4 ->
                     Then(ReaderBytes(reader), LAMBDA got :
                         Got([message EXCEPT !.groupTokenId = got.value], got.pos))
              [] OTHER -> DecodeDefault(tag, reader, message))

\* SlpToken.encode, to bytes
SlpTokenWrite(message) ==
    (IF ~isZero(message.amount)
         THEN WriterUint32(8) \o WriterInt64(message.amount) ELSE <<>>)
        \o (IF message.isMintBaton = TRUE
                THEN WriterUint32(16) \o WriterBool(message.isMintBaton) ELSE <<>>)

\* SlpToken.decode(reader, length)
SlpTokenRead(input, length) ==
    DecodeLoop(input, length, [amount |-> LongUZERO, isMintBaton |-> FALSE],
        LAMBDA tag, reader, message :
            CASE FieldNumber(tag) = 1 ->
                     Then(ReaderUint64(reader), LAMBDA got :
                         Got([message EXCEPT !.amount = got.value], got.pos))
              [] FieldNumber(tag) = 2 ->
                     Then(ReaderBool(reader), LAMBDA got :
                         Got([message EXCEPT !.isMintBaton = got.value], got.pos))
              [] OTHER -> DecodeDefault(tag, reader, message))

\* message Utxo of chronik.proto, written as the schema lays it out
SchemaUtxoEncode(m) ==
    (IF m.outpoint # Undefined
         THEN WriterUint32(10) \o WriterBytes(OutPointWrite(m.outpoint[1]))
         ELSE <<>>)
        \o (IF m.block # Undefined
                THEN WriterUint32(18) \o WriterBytes(BlockMetadataWrite(m.block[1]))
                ELSE <<>>)
        \o (IF m.is_coinbase = TRUE
                THEN WriterUint32(24) \o WriterBool(m.is_coinbase) ELSE <<>>)
        \o (IF Len(m.output_script) # 0
                THEN WriterUint32(34) \o WriterBytes(m.output_script) ELSE <<>>)
        \o (IF ~isZero(m.value)
                THEN WriterUint32(40) \o WriterInt64(m.value) ELSE <<>>)
        \o (IF m.slp_meta # Undefined
                THEN WriterUint32(50) \o WriterBytes(SlpMetaWrite(m.slp_meta[1]))
                ELSE <<>>)
        \o (IF m.slp_token # Undefined
                THEN WriterUint32(58) \o WriterBytes(SlpTokenWrite(m.slp_token[1]))
                ELSE <<>>)
        \o (IF ~isZero(m.time_first_seen)
                THEN WriterUint32(64) \o WriterInt64(m.time_first_seen) ELSE <<>>)
        \o (IF m.network # 0 THEN WriterUint32(72) \o WriterInt32(m.network) ELSE <<>>)

\* message Utxos of chronik.proto: repeated Utxo utxos = 1
SchemaUtxosEncode(m) ==
    FoldLeft(LAMBDA bytes, utxo :
                 bytes \o WriterUint32(10) \o WriterBytes(SchemaUtxoEncode(utxo)),
             <<>>, m.utxos)

\* Utxo.encode
UtxoEncode(message) ==
    (IF message.outpoint # Undefined
         THEN WriterUint32(10) \o WriterBytes(OutPointWrite(message.outpoint[1]))
         ELSE <<>>)
        \o (IF message.blockHeight # 0
                THEN WriterUint32(16) \o WriterInt32(message.blockHeight) ELSE <<>>)
        \o (IF message.isCoinbase = TRUE
                THEN WriterUint32(24) \o WriterBool(message.isCoinbase) ELSE <<>>)
        \o (IF ~isZero(message.value)
                THEN WriterUint32(40) \o WriterInt64(message.value) ELSE <<>>)
        \o (IF message.slpMeta # Undefined
                THEN WriterUint32(50) \o WriterBytes(SlpMetaWrite(message.slpMeta[1]))
                ELSE <<>>)
        \o (IF message.slpToken # Undefined
                THEN WriterUint32(58) \o WriterBytes(SlpTokenWrite(message.slpToken[1]))
                ELSE <<>>)
        \o (IF message.network # 0
                THEN WriterUint32(72) \o WriterInt32(message.network) ELSE <<>>)

\* a member message: `X.decode(reader, reader.uint32())`
ReadMember(reader, XDecode(_, _)) ==
    Then(ReaderUint32(reader), LAMBDA length :
        XDecode(At(reader, length.pos), <<length.value>>))

\* Utxo.decode(input, length): field 2 is read as an int32 whatever its
\* wire type
UtxoDecode(input, length) ==
    DecodeLoop(input, length,
        [outpoint |-> Undefined, blockHeight |-> 0, isCoinbase |-> FALSE,
         value |-> LongZERO, slpMeta |-> Undefined, slpToken |-> Undefined,
         network |-> 0],
        LAMBDA tag, reader, message :
            CASE FieldNumber(tag) = 1 ->
                     Then(ReadMember(reader, OutPointRead), LAMBDA got :
                         Got([message EXCEPT !.outpoint = <<got.value>>], got.pos))
              [] FieldNumber(tag) = 2 ->
                     Then(ReaderInt32(reader), LAMBDA got :
                         Got([message EXCEPT !.blockHeight = got.value], got.pos))
              [] FieldNumber(tag) = 3 ->
                     Then(ReaderBool(reader), LAMBDA got :
                         Got([message EXCEPT !.isCoinbase = got.value], got.pos))
              [] FieldNumber(tag) = 5 ->
                     Then(ReaderInt64(reader), LAMBDA got :
                         Got([message EXCEPT !.value = got.value], got.pos))
              [] FieldNumber(tag) = 6 ->
                     Then(ReadMember(reader, SlpMetaRead), LAMBDA got :
                         Got([message EXCEPT !.slpMeta = <<got.value>>], got.pos))
              [] FieldNumber(tag) = 7 ->
                     Then(ReadMember(reader, SlpTokenRead), LAMBDA got :
                         Got([message EXCEPT !.slpToken = <<got.value>>], got.pos))
              [] FieldNumber(tag) = 9 ->
                     Then(ReaderInt32(reader), LAMBDA got :
                         Got([message EXCEPT !.network = got.value], got.pos))
              [] OTHER -> DecodeDefault(tag, reader, message))

\* ScriptUtxos.encode
ScriptUtxosEncode(message) ==
    (IF Len(message.outputScript) # 0
         THEN WriterUint32(10) \o WriterBytes(message.outputScript) ELSE <<>>)
        \o FoldLeft(LAMBDA bytes, v :
                        bytes \o WriterUint32(18) \o WriterBytes(UtxoEncode(v)),
                    <<>>, message.utxos)

\* ScriptUtxos.decode(input, length)
ScriptUtxosDecode(input, length) ==
    DecodeLoop(input, length, [outputScript |-> <<>>, utxos |-> <<>>],
        LAMBDA tag, reader, message :
            CASE FieldNumber(tag) = 1 ->
                     Then(ReaderBytes(reader), LAMBDA got :
                         Got([message EXCEPT !.outputScript = got.value], got.pos))
              [] FieldNumber(tag) = 2 ->
                     Then(ReadMember(reader, UtxoDecode), LAMBDA got :
                         Got([message EXCEPT !.utxos = Append(@, got.value)], got.pos))
              [] OTHER -> DecodeDefault(tag, reader, message))

\* Utxos.encode
UtxosEncode(message) ==
    FoldLeft(LAMBDA bytes, v :
                 bytes \o WriterUint32(10) \o WriterBytes(ScriptUtxosEncode(v)),
             <<>>, message.scriptUtxos)

\* Utxos.decode(input, length)
UtxosDecode(input, length) ==
    DecodeLoop(input, length, [scriptUtxos |-> <<>>],
        LAMBDA tag, reader, message :
            CASE FieldNumber(tag) = 1 ->
                     Then(ReadMember(reader, ScriptUtxosDecode), LAMBDA got :
                         Got([message EXCEPT !.scriptUtxos = Append(@, got.value)],
                             got.pos))
              [] OTHER -> DecodeDefault(tag, reader, message))

\* what the caller of decode(bytes) has: the message, or the error thrown
Decoded(got) == IF got.kind = "throw" THEN got ELSE Return(got.value)

\* the blocks of the schema's Utxo messages: every member at its default,
\* the height alone, and every member set
SchemaBlocks ==
    {[height |-> 0, hash |-> <<>>, timestamp |-> LongZERO],
     [height |-> 1, hash |-> <<>>, timestamp |-> LongZERO],
     [height |-> 1, hash |-> <<86, 239>>, timestamp |-> Long(1600000000, 0, FALSE)]}

\* Utxo messages of the schema, for outputs still in the mempool (block is
\* not set) and for outputs in a block
SchemaUtxoValues ==
    [outpoint : Optional({[txid |-> TxidA, outIdx |-> 1]}),
     block : Optional(SchemaBlocks),
     is_coinbase : BOOLEAN,
     output_script : {<<>>, ScriptBytes},
     value : {LongZERO, Long(25, 0, FALSE)},
     slp_meta : {Undefined},
     slp_token : Optional({[amount |-> Long(7, 0, TRUE), isMintBaton |-> FALSE]}),
     time_first_seen : {LongZERO, Long(7, 0, FALSE)},
     network : {0, Network.XEC}]

\* Utxos messages of the schema over a few of these outputs
SchemaUtxosValues ==
    [utxos : SeqsUpTo({m \in SchemaUtxoValues :
                           /\ m.is_coinbase = FALSE
                           /\ m.output_script = ScriptBytes
                           /\ m.value = Long(25, 0, FALSE)
                           /\ m.slp_token = Undefined
                           /\ m.time_first_seen = LongZERO
                           /\ m.network = Network.XEC}, MaxUtxos)]

SchemaInit ==
    /\ IxIdle
    /\ WsIdle
    /\ env = [dataKind |-> "Buffer", onMessage |-> TRUE, onReconnect |-> FALSE]
    /\ \/ call \in [op : {"schema"}, type : {"Utxo"},
                    message : SchemaUtxoValues, wire : {Undefined},
                    again : {Undefined}]
       \/ call \in [op : {"schema"}, type : {"Utxos"},
                    message : SchemaUtxosValues, wire : {Undefined},
                    again : {Undefined}]
    /\ outcome = [kind |-> "none"]

\* a writer generated from chronik.proto serialises the message
SchemaWrite ==
    /\ call.op = "schema" /\ call.wire = Undefined
    /\ call' = [call EXCEPT !.wire =
                   IF call.type = "Utxo"
                   THEN <<SchemaUtxoEncode(call.message)>>
                   ELSE <<SchemaUtxosEncode(call.message)>>]
    /\ UNCHANGED <<outcome, wsVars, ixVars>>

\* Utxo.decode / Utxos.decode of chronik.ts read these bytes
ClientRead ==
    /\ call.op = "schema" /\ call.wire # Undefined
    /\ outcome = [kind |-> "none"]
    /\ outcome' = IF call.type = "Utxo"
                  THEN Decoded(UtxoDecode(Reader(call.wire[1]), Undefined))
                  ELSE Decoded(UtxosDecode(Reader(call.wire[1]), Undefined))
    /\ UNCHANGED <<call, wsVars, ixVars>>

\* Utxo.encode / Utxos.encode of chronik.ts write the decoded message back
ClientWrite ==
    /\ call.op = "schema" /\ call.again = Undefined
    /\ outcome.kind = "return"
    /\ call' = [call EXCEPT !.again =
                   IF call.type = "Utxo"
                   THEN <<UtxoEncode(outcome.value)>>
                   ELSE <<UtxosEncode(outcome.value)>>]
    /\ UNCHANGED <<outcome, wsVars, ixVars>>

SchemaNext ==
    \/ SchemaWrite
    \/ ClientRead
    \/ ClientWrite

SpecSchema == SchemaInit /\ [][SchemaNext]_vars

\* C24: the schema chronik.proto and the codecs of chronik.ts agree on the
\* number and type of every field of Utxo and Utxos: the client's decode
\* reads every message written as the schema lays it out, and the client's
\* encode of what it read gives the bytes it was read from.
C24_SchemaAgrees ==
    call.op = "schema" =>
        /\ outcome.kind # "throw"
        /\ call.again # Undefined => call.again[1] = call.wire[1]

----------------------------------------------------------------------------
(* The Token Validity Engine, from its specification (section 4.3): the    *)
(* verdict on a GENESIS and on a SEND spending its output, the transaction  *)
(* as the index holds it, and as the client's tx() shows it.                *)

MaxAmount == 3

GenesisTxid == <<29, 0>>
SendTxid == <<29, 1>>

\* a GENESIS declaring the mint baton at output 0 and amount A at output 1
GenesisTx(A) ==
    [txid |-> GenesisTxid, txType |-> SlpTxType.GENESIS, tokenId |-> <<>>,
     inputs |-> <<>>,
     declared |-> <<[amount |-> 0, isMintBaton |-> TRUE],
                    [amount |-> A, isMintBaton |-> FALSE]>>]

\* a SEND spending output 1 of the GENESIS into amounts a1 and a2
SendTx(a1, a2) ==
    [txid |-> SendTxid, txType |-> SlpTxType.SEND, tokenId |-> GenesisTxid,
     inputs |-> <<[txid |-> GenesisTxid, outIdx |-> 1]>>,
     declared |-> <<[amount |-> a1, isMintBaton |-> FALSE],
                    [amount |-> a2, isMintBaton |-> FALSE]>>]

RECURSIVE SumAmounts(_)
SumAmounts(amounts) ==
    IF amounts = <<>> THEN 0 ELSE Head(amounts) + SumAmounts(Tail(amounts))

\* the amount of tokenId an input carries; an input is <<>> or the
\* <<[token, tokenId]>> of the validated output it spends
TokenAmountOf(in, tokenId) ==
    IF in # Undefined /\ in[1].tokenId = tokenId /\ ~in[1].token.isMintBaton
    THEN in[1].token.amount ELSE 0

Min(a, b) == IF a < b THEN a ELSE b

\* the part of the surplus attributed to input i: the first inputs carrying
\* the token take it, in input order
BurnAt(amounts, surplus, i) ==
    LET before == SumAmounts(SubSeq(amounts, 1, i - 1))
    IN IF surplus <= before THEN 0 ELSE Min(surplus - before, amounts[i])

Invalid(t, ins, msg) ==
    [tokenData |-> Undefined, errorMsg |-> msg,
     burns |-> [i \in DOMAIN ins |-> Undefined],
     outputs |-> [i \in DOMAIN t.declared |-> Undefined]]

\* SEND: valid when the inputs carry at least the declared output amounts;
\* the surplus is a burn on the inputs
ValidateSend(t, ins) ==
    LET amounts == [i \in DOMAIN ins |-> TokenAmountOf(ins[i], t.tokenId)]
        sumIn == SumAmounts(amounts)
        sumOut == SumAmounts([i \in DOMAIN t.declared |-> t.declared[i].amount])
    IN IF sumIn >= sumOut
       THEN [tokenData |-> <<[txType |-> t.txType, tokenId |-> t.tokenId]>>,
             errorMsg |-> "",
             burns |-> [i \in DOMAIN ins |->
                           IF BurnAt(amounts, sumIn - sumOut, i) > 0
                           THEN <<[token |-> <<[amount |-> BurnAt(amounts, sumIn - sumOut, i),
                                                isMintBaton |-> FALSE]>>,
                                   tokenId |-> t.tokenId]>>
                           ELSE Undefined],
             outputs |-> [i \in DOMAIN t.declared |-> <<t.declared[i]>>]]
       ELSE Invalid(t, ins, "token outputs exceed token inputs")

\* GENESIS: valid with no token inputs and a mint baton declared at output
\* 0; the token id is the txid
ValidateGenesis(t, ins) ==
    IF /\ \A i \in DOMAIN ins : ins[i] = Undefined
       /\ t.declared # <<>>
       /\ t.declared[1].isMintBaton
    THEN [tokenData |-> <<[txType |-> t.txType, tokenId |-> t.txid]>>,
          errorMsg |-> "",
          burns |-> [i \in DOMAIN ins |-> Undefined],
          outputs |-> [i \in DOMAIN t.declared |-> <<t.declared[i]>>]]
    ELSE Invalid(t, ins, "invalid GENESIS")

\* the verdict on a transaction given the token state of its inputs
Validate(t, ins) ==
    IF t.txType = SlpTxType.GENESIS THEN ValidateGenesis(t, ins)
    ELSE ValidateSend(t, ins)

\* the Tx the index holds: the transaction with its verdict attached
TokenTx(t, ins, verdict) ==
    [txid |-> t.txid, version |-> 1,
     inputs |-> [i \in DOMAIN t.inputs |->
                    [prevOut |-> <<t.inputs[i]>>, inputScript |-> <<>>,
                     outputScript |-> ScriptBytes, value |-> 5,
                     sequenceNo |-> 0, slpBurn |-> verdict.burns[i],
                     slpToken |-> IF ins[i] = Undefined THEN Undefined
                                  ELSE <<ins[i][1].token>>]],
     outputs |-> [i \in DOMAIN t.declared |->
                     [value |-> 5, outputScript |-> ScriptBytes,
                      slpToken |-> verdict.outputs[i], spentBy |-> Undefined]],
     lockTime |-> 0,
     slpTxData |-> IF verdict.tokenData = Undefined THEN Undefined
                   ELSE <<[slpMeta |-> <<[tokenType |-> SlpTokenType.FUNGIBLE,
                                          txType |-> verdict.tokenData[1].txType,
                                          tokenId |-> verdict.tokenData[1].tokenId,
                                          groupTokenId |-> <<>>]>>,
                           genesisInfo |-> Undefined]>>,
     slpErrorMsg |-> verdict.errorMsg,
     block |-> Undefined, timeFirstSeen |-> 0, network |-> Network.XEC]

\* the token state of the output an input spends, among the indexed txs
InputToken(indexed, outpoint) ==
    IF \E k \in DOMAIN indexed :
           /\ indexed[k].txid = outpoint.txid
           /\ indexed[k].slpTxData # Undefined
           /\ indexed[k].outputs[outpoint.outIdx + 1].slpToken # Undefined
    THEN LET k == CHOOSE k \in DOMAIN indexed : indexed[k].txid = outpoint.txid
         IN <<[token |-> indexed[k].outputs[outpoint.outIdx + 1].slpToken[1],
               tokenId |-> indexed[k].slpTxData[1].slpMeta[1].tokenId]>>
    ELSE Undefined

\* a transaction enters the index with the engine's verdict attached
Indexed(indexed, t) ==
    LET ins == [i \in DOMAIN t.inputs |-> InputToken(indexed, t.inputs[i])]
    IN Append(indexed, TokenTx(t, ins, Validate(t, ins)))

TokenInit ==
    /\ IxIdle
    /\ WsIdle
    /\ env = [dataKind |-> "Buffer", onMessage |-> TRUE, onReconnect |-> FALSE]
    /\ call \in [op : {"token"}, A : 1..MaxAmount, a1 : 0..MaxAmount,
                 a2 : 0..MaxAmount, indexed : {<<>>}, queried : {0},
                 response : {Undefined}]
    /\ outcome = [kind |-> "none"]

\* the GENESIS arrives
IndexGenesis ==
    /\ call.op = "token" /\ Len(call.indexed) = 0
    /\ call' = [call EXCEPT !.indexed = Indexed(@, GenesisTx(call.A))]
    /\ UNCHANGED <<outcome, wsVars, ixVars>>

\* the SEND arrives
IndexSend ==
    /\ call.op = "token" /\ Len(call.indexed) = 1
    /\ call' = [call EXCEPT !.indexed = Indexed(@, SendTx(call.a1, call.a2))]
    /\ UNCHANGED <<outcome, wsVars, ixVars>>

\* ChronikClient.tx on an indexed transaction, up to `await _get(...)`: the
\* indexer answers with the transaction as indexed, the response is in flight
QueryTx(k) ==
    /\ call.op = "token" /\ k \in DOMAIN call.indexed
    /\ call.queried = 0 \/ outcome.kind # "none"
    /\ call' = [call EXCEPT !.queried = k,
                            !.response = <<Ok(TxEncode(call.indexed[k]))>>]
    /\ outcome' = [kind |-> "none"]
    /\ UNCHANGED <<wsVars, ixVars>>

\* ChronikClient.tx resumed with the response
QueryTxResume ==
    /\ call.op = "token" /\ call.queried # 0
    /\ outcome = [kind |-> "none"]
    /\ outcome' = Finish(_get(call.response[1],
                              <<"/tx/", toHexRev(call.indexed[call.queried].txid)>>),
                         LAMBDA data : convertToTxError(TxDecode(data)),
                         LAMBDA data : convertToTx(TxDecode(data)))
    /\ UNCHANGED <<call, wsVars, ixVars>>

TokenNext ==
    \/ IndexGenesis
    \/ IndexSend
    \/ \E k \in 1..2 : QueryTx(k)
    \/ QueryTxResume

SpecToken == TokenInit /\ [][TokenNext]_vars

\* C21: a SEND spending the output of a GENESIS that minted A into amounts
\* a1 and a2 is indexed whatever the verdict; with a1+a2 = A it is valid
\* with no burn, with a1+a2 < A it is valid with a burn of A-a1-a2 on its
\* input, with a1+a2 > A it carries a non-empty error message and no token
\* data, and the client's tx() shows the same.
C21_SendVerdicts ==
    call.op = "token" =>
        /\ Len(call.indexed) = 1 => ENABLED IndexSend
        /\ Len(call.indexed) = 2 =>
            LET send == call.indexed[2]
                sum == call.a1 + call.a2
            IN /\ send.txid = SendTxid
               /\ sum = call.A =>
                      /\ send.slpTxData # Undefined /\ send.slpErrorMsg = ""
                      /\ send.inputs[1].slpBurn = Undefined
               /\ sum < call.A =>
                      /\ send.slpTxData # Undefined /\ send.slpErrorMsg = ""
                      /\ send.inputs[1].slpBurn =
                             <<[token |-> <<[amount |-> call.A - sum,
                                             isMintBaton |-> FALSE]>>,
                                tokenId |-> GenesisTxid]>>
               /\ sum > call.A =>
                      /\ send.slpTxData = Undefined /\ send.slpErrorMsg # ""
               /\ (call.queried = 2 /\ outcome.kind # "none") =>
                      /\ outcome.kind = "return"
                      /\ outcome.value.slpTxData = Undefined <=> sum > call.A
                      /\ outcome.value.slpErrorMsg # Undefined <=> sum > call.A
                      /\ sum > call.A =>
                             outcome.value.slpErrorMsg[1] = send.slpErrorMsg
                      /\ (outcome.value.inputs[1].slpBurn # Undefined)
                             <=> sum < call.A

\* a GENESIS of 2 spent into 1 + 2: the SEND is indexed and the client sees
\* its error message and no token data
C21_Witness ==
    /\ call.op = "token"
    /\ call.A = 2 /\ call.a1 = 1 /\ call.a2 = 2
    /\ call.queried = 2
    /\ outcome.kind = "return"
    /\ outcome.value.slpErrorMsg # Undefined
    /\ outcome.value.slpTxData = Undefined

----------------------------------------------------------------------------
(* Properties of the life cycle of the WsEndpoint                           *)

\* C25: once close() has been called no socket is created and onReconnect
\* is not invoked, whatever happens afterwards and wherever the endpoint was
\* when close() was called.
C25_NothingAfterClose ==
    [][_closed => /\ Len(socks') = Len(socks)
                  /\ nReconnect' = nReconnect]_vars

\* the sockets that are connecting or open
Live(ss) == {i \in DOMAIN ss : ss[i].readyState \in {"CONNECTING", "OPEN"}}

\* C26: at most one socket is connecting or open and _ws refers to it; a
\* socket is created only when the close handler of the current socket runs,
\* with every earlier socket closed; a frame goes out only on the current
\* socket, and only when it is open.
C26_OneLiveSocket ==
    /\ [](Live(socks) \subseteq {_ws})
    /\ [][Len(socks') > Len(socks) =>
              /\ Len(socks') = Len(socks) + 1
              /\ _ws' = Len(socks')
              /\ Live(socks') = {_ws'}
              /\ inOnClose = _ws \/ socks[_ws].readyState # "CLOSED"
              /\ socks'[_ws].readyState = "CLOSED"]_vars
    /\ [][\A i \in DOMAIN socks :
              Len(socks'[i].sent) > Len(socks[i].sent) =>
                  /\ i = _ws /\ i = _ws'
                  /\ socks'[i].readyState = "OPEN"]_vars

\* a second socket is open and carries a replayed subscription while the
\* first is closed
C26_Witness ==
    /\ Len(socks) = 2
    /\ _ws = 2
    /\ socks[1].readyState = "CLOSED"
    /\ socks[2].readyState = "OPEN"
    /\ Len(socks[2].sent) > 0

\* C27: a waitForOpen call returns once a socket of the endpoint has opened:
\* whenever the current socket has opened, every call made by then, on it
\* or on an earlier socket, eventually returns.
C27_WaitResolves ==
    \A k \in 1..MaxWaits :
        (k \in DOMAIN waits /\ _connected) ~> (k \in DOMAIN waits /\ waits[k].done)

\* C28: a subscribe or unsubscribe call whose frame cannot be sent, send
\* raising on a socket that is still connecting, leaves the recorded
\* subscriptions as they were.
C28_FailedCallKeepsSubs ==
    [][\A p \in Pairs :
           ((subscribe(p) \/ unsubscribe(p)) /\ WsSendThrows(socks, _ws)) =>
               _subs' = _subs]_vars

\* Subscription.encode: the bytes _subUnsub hands to send
SubscriptionEncode(m) ==
    (IF m.scriptType # "" THEN <<Field(1, m.scriptType)>> ELSE <<>>)
        \o (IF Len(m.payload) # 0 THEN <<Field(2, m.payload)>> ELSE <<>>)
        \o (IF m.isSubscribe = TRUE THEN <<Field(3, m.isSubscribe)>> ELSE <<>>)

\* Subscription.decode
SubscriptionDecode(data) ==
    FoldLeft(LAMBDA m, f :
                 CASE f.field = 1 -> [m EXCEPT !.scriptType = f.body]
                   [] f.field = 2 -> [m EXCEPT !.payload = f.body]
                   [] f.field = 3 -> [m EXCEPT !.isSubscribe = f.body]
                   [] OTHER -> m,
             [scriptType |-> "", payload |-> <<>>, isSubscribe |-> FALSE], data)

\* the step sends one frame on the current socket and nothing else, and the
\* frame reads as the given Subscription
SendsOne(isSubscribe, p) ==
    /\ Len(socks'[_ws].sent) = Len(socks[_ws].sent) + 1
    /\ socks' = [socks EXCEPT ![_ws].sent =
                    Append(@, socks'[_ws].sent[Len(socks'[_ws].sent)])]
    /\ SubscriptionDecode(SubscriptionEncode(
           socks'[_ws].sent[Len(socks'[_ws].sent)])) =
               [scriptType |-> p[1], payload |-> fromHex(p[2]),
                isSubscribe |-> isSubscribe]

\* C22: a subscribe(t, p) or unsubscribe(t, p) call made while the current
\* socket is open puts exactly one Subscription frame behind the frames
\* already sent on that socket, with scriptType t, the bytes of the hex
\* string p as payload and isSubscribe true for subscribe and false for
\* unsubscribe; nothing goes out on another socket.
C22_OneFramePerCall ==
    [][\A p \in Pairs :
           /\ (subscribe(p) /\ socks[_ws].readyState = "OPEN") =>
                  SendsOne(TRUE, p)
           /\ (unsubscribe(p) /\ socks[_ws].readyState = "OPEN") =>
                  SendsOne(FALSE, p)]_vars

\* subscribe("p2pkh", "ab12") and then unsubscribe("p2pkh", "ab12") on the
\* open socket: two frames, in the order of the calls
C22_Witness ==
    /\ nCalls = 2
    /\ socks[_ws].readyState = "OPEN"
    /\ socks[_ws].sent =
           <<[isSubscribe |-> TRUE, scriptType |-> "p2pkh", payload |-> <<171, 18>>],
             [isSubscribe |-> FALSE, scriptType |-> "p2pkh", payload |-> <<171, 18>>]>>

\* socket i closes in this step and close() had not been called
Drops(i) ==
    /\ ~_closed
    /\ socks[i].readyState # "CLOSED"
    /\ socks'[i].readyState = "CLOSED"

\* what the onclose handler of socket i has done when it reconnects: entered
\* config.onReconnect, or, without one, made the new socket this._ws
Reconnecting(i) ==
    IF env.onReconnect
    THEN inOnClose' = i /\ nReconnect' = nReconnect + 1 /\ Len(socks') = Len(socks)
    ELSE /\ Len(socks') = Len(socks) + 1
         /\ _ws' = Len(socks')
         /\ socks'[_ws'].readyState = "CONNECTING"

\* C29: when a socket closes without close() having been called, onReconnect,
\* if configured, is invoked once, before the new socket is created, and for
\* nothing else; the new socket is created with and without onReconnect,
\* after every such close: in every state the endpoint reaches, however many
\* sockets it has made, the onclose handler of each socket that is not closed
\* can run, and it cannot run without reconnecting.
C29_ReconnectEveryDrop ==
    /\ [][\A i \in DOMAIN socks :
              Drops(i) =>
                  IF env.onReconnect
                  THEN /\ nReconnect' = nReconnect + 1
                       /\ Len(socks') = Len(socks)
                       /\ inOnClose' = i
                  ELSE /\ nReconnect' = nReconnect
                       /\ Len(socks') = Len(socks) + 1
                       /\ socks'[Len(socks')].readyState = "CONNECTING"]_vars
    /\ [][nReconnect' # nReconnect => \E i \in DOMAIN socks : Drops(i)]_vars
    /\ [][(Len(socks') > Len(socks) /\ env.onReconnect) =>
              /\ nReconnect' = nReconnect
              /\ nReconnect = Len(socks)]_vars
    /\ [](\A i \in DOMAIN socks :
              (~_closed /\ inOnClose = 0 /\ socks[i].readyState # "CLOSED") =>
                  /\ ENABLED (OnClose(i) /\ Drops(i) /\ Reconnecting(i))
                  /\ ~ENABLED (OnClose(i) /\ ~Reconnecting(i)))
    /\ \A n \in 1..MaxAttempts :
           (inOnClose # 0 /\ Len(socks) = n) ~>
               (Len(socks) = n + 1 /\ socks[_ws].readyState # "CLOSED")

\* with onReconnect configured, the fifth socket has been created after the
\* drops of the four before it, one callback for each drop, and its onclose
\* handler can run again
C29_Witness ==
    /\ env.onReconnect
    /\ ~_closed
    /\ Len(socks) >= 5
    /\ nReconnect = Len(socks) - 1
    /\ inOnClose = 0
    /\ socks[_ws].readyState = "CONNECTING"
    /\ \A i \in 1..(Len(socks) - 1) : socks[i].readyState = "CLOSED"

====
